---- MODULE Spec2Model ----
(***************************************************************************)
(* Call session controllers of the softphone console.                      *)
(*                                                                         *)
(*   tw : TwilioClientProvider  (src/unnamed/part_009)                     *)
(*   tx : TelnyxClientProvider  (src/src/context/AuthContext.tsx, 288 ff.) *)
(*                                                                         *)
(* Each provider is one record holding the React state, the refs, the SDK  *)
(* objects the provider created (devices, connections, clients, calls,     *)
(* promises), the suspended async invocations (procs) and a few history    *)
(* fields (counters, the list of finalizeUserCallLog invocations).  A      *)
(* handler is an operator from a provider record to a provider record, so  *)
(* that handlers which call one another compose as the code runs them.     *)
(* One step of the model is one run-to-completion segment of the event     *)
(* loop: a handler from its entry (or from the await it was suspended at)  *)
(* to its next await that really suspends.                                 *)
(*                                                                         *)
(* The SDKs are the environment: a notification can be delivered whenever  *)
(* the object that emits it is alive and the listener is attached.         *)
(***************************************************************************)
EXTENDS Integers, Sequences, FiniteSets, TLC

VARIABLES tw, tx

vars == <<tw, tx>>

\* ------------------------------------------------------------------ bounds
MaxDevices == 2      \* Twilio Device objects constructed in one run
MaxCalls == 2        \* Twilio connections (inbound + outbound) in one run
MaxProcs == 2        \* suspended initializeClient invocations at one time
MaxCallProcs == 1    \* suspended makeCall / acceptIncomingCall invocations at one time
MaxTime == 1         \* clock ticks (of TickMs milliseconds) a call start is aged by
MaxClients == 2      \* TelnyxRTC clients constructed in one run
MaxTelnyxCalls == 2  \* Telnyx calls placed in one run
MaxPromises == 4     \* ready promises that are pending or still awaited at one time
MaxTimers == 2       \* refresh timers armed in one run
MaxDigitsSent == 2   \* strings passed to the SDK's sendDigits in one run
MaxOverflow == 2     \* feed entries pushed beyond MAX_EVENT_ENTRIES in one run
MaxFeedEvents == 7   \* feed entries pushed in one run that keeps the feed of a call

TickMs == 500        \* one clock tick, in milliseconds

\* ----------------------------------------------------------------- strings
\* A string is a sequence of characters; Nil is null / undefined.
Nil == <<"nil">>

DialChars == {"+", "1", "2", "4"}

KeepDial(s) == SelectSeq(s, LAMBDA ch : ch \in DialChars)

RECURSIVE TrimLeft(_)
TrimLeft(s) == IF s # <<>> /\ Head(s) = " " THEN TrimLeft(Tail(s)) ELSE s

RECURSIVE TrimRight(_)
TrimRight(s) ==
    IF s # <<>> /\ s[Len(s)] = " " THEN TrimRight(SubSeq(s, 1, Len(s) - 1)) ELSE s

Trim(s) == TrimRight(TrimLeft(s))

\* value.replace(/[^0-9+]/g, ''), then a leading "+" is added when missing
normalisePhoneNumber(value) ==
    IF value = Nil \/ value = <<>> THEN Nil
    ELSE LET digits == KeepDial(value)
         IN  IF digits = <<>> THEN Nil
             ELSE IF Head(digits) = "+" THEN digits
             ELSE <<"+">> \o digits

\* normalisePhoneNumber(From) ?? From ?? null
callerOf(from) ==
    IF normalisePhoneNumber(from) # Nil THEN normalisePhoneNumber(from) ELSE from

\* makeCall's normalisedDestination, of the trimmed destination
normaliseDestination(trimmed) ==
    IF Head(trimmed) = "+" THEN trimmed ELSE KeepDial(trimmed)

\* connection.parameters.From of the inbound calls the environment offers
FromValues == { <<"4", "-", "2">> }
\* the destinations the UI passes to makeCall
DestValues == { <<" ">>, <<" ", "1", "-", "2">> }
\* connection.parameters.To of an inbound connection: the agent's own identity
ClientIdentity == <<"a">>
\* the texts the UI passes to setCallNote
NoteValues == { <<>>, <<" ", "n">> }

\* ------------------------------------------------------------------ clock
\* The clock is read only as Date.now() - activeCallStartedAtRef.current, so the
\* model keeps that difference: startedAgo is NoStart while the ref is null, and
\* else the ticks that passed since the connect handler stored Date.now().
NoStart == -1

\* startedAt ? Math.max(Math.round((Date.now() - startedAt) / 1000), 0) : 0
durationSeconds(startedAgo) ==
    IF startedAgo # NoStart
    THEN LET ms == startedAgo * TickMs
             rounded == (ms + 500) \div 1000
         IN  IF rounded > 0 THEN rounded ELSE 0
    ELSE 0

\* ================================================================= Twilio
MAX_EVENT_ENTRIES == 100

DeviceIds == 1..MaxDevices
TimerIds == 1..MaxTimers
CallIds == 1..MaxCalls
ProcIds == 1..MaxProcs

\* lastError holds null or a message; the model keeps which
NoError == "null"
Message == "message"

\* staleToken: updateToken() was called on the device after it was destroyed,
\* and did not throw
NoDevice == [status |-> "none", staleToken |-> FALSE]
\* pending from setTimeout until the callback runs (fired) or clearTimeout (cleared)
NoTimer == [status |-> "none", ms |-> 0]
NoConn == [status |-> "none", dir |-> "none", dev |-> 0, num |-> Nil,
           muted |-> FALSE, held |-> FALSE, listeners |-> {}, gotConnect |-> FALSE]
FreeProc == [op |-> "none", pc |-> "free", dev |-> 0, call |-> 0, dest |-> Nil]

TwInit ==
    [ connectionStatus |-> "idle",
      callState |-> "idle",
      isClientReady |-> FALSE,
      isMuted |-> FALSE,
      isOnHold |-> FALSE,
      lastError |-> NoError,
      incomingNumber |-> Nil,
      activeNumber |-> Nil,
      deviceRef |-> 0,
      activeConnectionRef |-> 0,
      incomingConnectionRef |-> 0,
      activeLogIdRef |-> 0,
      startedAgo |-> NoStart,
      callNoteRef |-> <<>>,
      tokenRefreshTimerRef |-> 0,
      events |-> <<>>,
      \* SDK objects
      devices |-> [d \in DeviceIds |-> NoDevice],
      timers |-> [t \in TimerIds |-> NoTimer],
      conns |-> [c \in CallIds |-> NoConn],
      \* suspended invocations of initializeClient / makeCall / acceptIncomingCall
      procs |-> [p \in ProcIds |-> FreeProc],
      \* history
      nDevices |-> 0,
      nCalls |-> 0,
      nEvents |-> 0,
      nTimers |-> 0,
      \* clearDevice has run and initializeClient was not called since
      tornDown |-> FALSE,
      sentDigits |-> <<>>,
      logs |-> [c \in CallIds |-> "none"],
      finalizeCalls |-> <<>>,
      \* the calls whose makeCall was suspended when a hangUp ran, in the runs
      \* that record it (history = "on")
      hungUp |-> {},
      history |-> "off",
      \* "on" in the runs that keep the event feed
      feed |-> "off" ]

\* ------------------------------------------------------ event feed (117-126)
\* The feed is written by pushEvent and resetEvents and read by no handler.
\* The runs that are about calls and devices leave it out (feed = "off"); the
\* runs that are about the feed keep it.  An entry's id (crypto.randomUUID())
\* is the number of entries pushed before it, plus one; `at` is left out.
\* as pushEvent, without the slice
pushEvent_noSlice(s, message) ==
    IF s.feed = "off" THEN s
    ELSE [s EXCEPT
            !.nEvents = @ + 1,
            !.events = <<[id |-> s.nEvents + 1, message |-> message]>> \o s.events]

pushEvent(s, message) ==
    IF s.feed = "off" THEN s
    ELSE LET next == <<[id |-> s.nEvents + 1, message |-> message]>> \o s.events
         IN  [s EXCEPT
                !.nEvents = @ + 1,
                !.events = IF Len(next) > MAX_EVENT_ENTRIES
                           THEN SubSeq(next, 1, MAX_EVENT_ENTRIES) ELSE next]

resetEvents(s) == [s EXCEPT !.events = <<>>]

\* the Telnyx provider's pushEvent (AuthContext.tsx 449-451), on the feed prev:
\* [entry, ...prev.slice(0, MAX_EVENT_ENTRIES - 1)]
telnyxPushEvent(prev, entry) ==
    <<entry>> \o (IF Len(prev) > MAX_EVENT_ENTRIES - 1
                   THEN SubSeq(prev, 1, MAX_EVENT_ENTRIES - 1) ELSE prev)

LiveDevices(s) == { d \in DeviceIds : s.devices[d].status = "live" }

InFlight(s) == { p \in ProcIds : s.procs[p].pc \in {"fetch", "register"} }

FreeProcs(s) == { p \in ProcIds : s.procs[p].pc = "free" }

\* the slot a new invocation is suspended in
NewProc(s) == CHOOSE p \in FreeProcs(s) : \A q \in FreeProcs(s) : p <= q

\* device.destroy(): the device's connections are torn down
destroyConns(conns, d) ==
    [c \in CallIds |->
        IF conns[c].dev = d /\ conns[c].status \in {"pending", "accepted", "open"}
        THEN [conns[c] EXCEPT !.status = "closing"]
        ELSE conns[c]]

\* clearTimeout(t): a timer that is still pending will not run
clearTimeout(timers, t) ==
    IF t # 0 /\ timers[t].status = "pending"
    THEN [timers EXCEPT ![t].status = "cleared"] ELSE timers

PendingTimers(s) == { t \in TimerIds : s.timers[t].status = "pending" }

\* Math.max((expiresInSeconds - 120) * 1000, 30_000)
refreshInMs(expiresInSeconds) ==
    LET early == (expiresInSeconds - 120) * 1000
    IN  IF early > 30000 THEN early ELSE 30000

\* the token response carries no expiresIn
NoExpiry == 0

\* as scheduleTokenRefresh, without lines 156-158
scheduleTokenRefresh_noClear(s, expiresInSeconds) ==
    IF expiresInSeconds = NoExpiry \/ expiresInSeconds <= 0 THEN s
    ELSE LET t == s.nTimers + 1
         IN  [s EXCEPT
                !.nTimers = t,
                !.timers[t] = [status |-> "pending", ms |-> refreshInMs(expiresInSeconds)],
                !.tokenRefreshTimerRef = t]

\* scheduleTokenRefresh (155-178): the timer is armed; its callback is TimerFires
scheduleTokenRefresh(s, expiresInSeconds) ==
    LET s1 == [s EXCEPT !.timers = clearTimeout(@, s.tokenRefreshTimerRef)]
    IN  IF expiresInSeconds = NoExpiry \/ expiresInSeconds <= 0 THEN s1
        ELSE LET t == s.nTimers + 1
             IN  [s1 EXCEPT
                    !.nTimers = t,
                    !.timers[t] = [status |-> "pending",
                                   ms |-> refreshInMs(expiresInSeconds)],
                    !.tokenRefreshTimerRef = t]

\* as clearDevice, without lines 141-144
clearDevice_keepsTimer(s) ==
    LET d == s.deviceRef
    IN  [s EXCEPT
            !.devices = IF d # 0 THEN [@ EXCEPT ![d].status = "destroyed"] ELSE @,
            !.conns = IF d # 0 THEN destroyConns(@, d) ELSE @,
            !.deviceRef = 0,
            !.activeConnectionRef = 0,
            !.incomingConnectionRef = 0,
            !.isClientReady = FALSE,
            !.connectionStatus = "disconnected",
            !.tornDown = TRUE]

\* clearDevice (128-147); destroy() throwing is caught (131-136)
clearDevice(s) ==
    LET d == s.deviceRef
    IN  [s EXCEPT
            !.devices = IF d # 0 THEN [@ EXCEPT ![d].status = "destroyed"] ELSE @,
            !.conns = IF d # 0 THEN destroyConns(@, d) ELSE @,
            !.deviceRef = 0,
            !.activeConnectionRef = 0,
            !.incomingConnectionRef = 0,
            !.timers = clearTimeout(@, s.tokenRefreshTimerRef),
            !.tokenRefreshTimerRef = 0,
            !.isClientReady = FALSE,
            !.connectionStatus = "disconnected",
            !.tornDown = TRUE]

\* by: the connection whose notification asked for the finalize (0: none tracked)
finalizeActiveLog_keepId(s, status, by) ==
    IF s.activeLogIdRef = 0 THEN s
    ELSE [s EXCEPT
            !.startedAgo = NoStart,
            !.callNoteRef = <<>>,
            !.finalizeCalls = Append(@,
                [logId |-> s.activeLogIdRef, status |-> status,
                 durationSeconds |-> durationSeconds(s.startedAgo),
                 note |-> Trim(s.callNoteRef), by |-> by])]

finalizeActiveLog(s, status, by) ==
    IF s.activeLogIdRef = 0 THEN s
    ELSE [s EXCEPT
            !.activeLogIdRef = 0,
            !.startedAgo = NoStart,
            !.callNoteRef = <<>>,
            !.finalizeCalls = Append(@,
                [logId |-> s.activeLogIdRef, status |-> status,
                 durationSeconds |-> durationSeconds(s.startedAgo),
                 note |-> Trim(s.callNoteRef), by |-> by])]

\* ------------------------------------------------ initializeClient (207-339)
\* What the caller of initializeClient does once it has the device: the rest of
\* initializeClient's caller runs in the same turn of the event loop.
\*   makeCall, lines 353-368, up to the await of createUserCallLog
makeCallDial(s, p, d) ==
    LET k == s.procs[p].call
    IN  [s EXCEPT
            !.callNoteRef = <<>>,
            !.callState = "connecting",
            !.activeNumber = normaliseDestination(s.procs[p].dest),
            !.isMuted = FALSE,
            !.isOnHold = FALSE,
            !.incomingNumber = Nil,
            !.lastError = NoError,
            !.logs[k] = "creating",
            !.procs[p] = [@ EXCEPT !.pc = "log", !.dev = d]]

\*   acceptIncomingCall, lines 439-458, up to the await of createUserCallLog
acceptAnswer(s, p, acceptOk) ==
    LET c == s.procs[p].call
        fromNumber == callerOf(s.conns[c].num)
    IN  IF acceptOk
        THEN pushEvent([s EXCEPT
                !.conns[c].status = IF @ = "pending" THEN "accepted" ELSE @,
                !.activeConnectionRef = c,
                !.incomingConnectionRef = 0,
                !.activeNumber = fromNumber,
                !.incomingNumber = Nil,
                !.callState = "active",
                !.isMuted = s.conns[c].muted,
                !.isOnHold = s.conns[c].held,
                !.callNoteRef = <<>>,
                !.logs[c] = "creating",
                !.procs[p] = [@ EXCEPT !.pc = "acceptLog"]],
                "Accepted incoming call")
        ELSE pushEvent([s EXCEPT
                !.lastError = Message,
                !.procs[p] = FreeProc], "Unable to accept call")

afterInit(s, p, d, acceptOk) ==
    CASE s.procs[p].op = "init" ->
            [s EXCEPT !.procs[p] = FreeProc]
      [] s.procs[p].op = "makeCall" -> makeCallDial(s, p, d)
      [] s.procs[p].op = "accept" -> acceptAnswer(s, p, acceptOk)

\* as initializeClient, without the test of line 212
initializeClient_noShortcut(s, p, acceptOk) ==
    LET s1 == IF s.deviceRef # 0 THEN clearDevice(s) ELSE s
    IN  pushEvent([s1 EXCEPT
            !.connectionStatus = "initialising",
            !.tornDown = FALSE,
            !.procs[p] = [@ EXCEPT !.pc = "fetch"]], "Requesting Twilio token")

\* lines 208-226: entry, up to the await of fetchAccessToken (the token is
\* requested here).  p holds the invocation (its op, and what its caller needs
\* afterwards).
initializeClient(s, p, acceptOk) ==
    IF s.deviceRef # 0 /\ s.isClientReady
    THEN afterInit([s EXCEPT !.tornDown = FALSE], p, s.deviceRef, acceptOk)
    ELSE LET s1 == IF s.deviceRef # 0 THEN clearDevice(s) ELSE s
         IN  pushEvent([s1 EXCEPT
                !.connectionStatus = "initialising",
                !.tornDown = FALSE,
                !.procs[p] = [@ EXCEPT !.pc = "fetch"]], "Requesting Twilio token")

\* lines 227-329: the token arrived; the device is constructed, its listeners
\* attached, it replaces deviceRef.current, the refresh is scheduled and
\* register() is called
initializeClient_fetched(s, p, expiresIn) ==
    LET d == s.nDevices + 1
    IN  scheduleTokenRefresh(
            [s EXCEPT
                !.nDevices = d,
                !.devices[d] = [status |-> "live", staleToken |-> FALSE],
                !.deviceRef = d,
                !.procs[p] = [@ EXCEPT !.pc = "register", !.dev = d]],
            expiresIn)

\* ------------------------------------------------ token refresh (163-177, 254-266)
\* the timer callback, up to the await of fetchAccessToken
onRefreshTimer(s, p) ==
    IF s.deviceRef = 0 THEN s
    ELSE [s EXCEPT !.procs[p] = [FreeProc EXCEPT !.op = "refresh", !.pc = "refreshFetch",
                                                 !.dev = s.deviceRef]]

\* device.on('tokenWillExpire') of device d, up to the await of fetchAccessToken
onTokenWillExpire(s, p, d) ==
    pushEvent([s EXCEPT !.procs[p] = [FreeProc EXCEPT !.op = "expiry",
                                                      !.pc = "refreshFetch", !.dev = d]],
              "Twilio token expiring soon, refreshing")

\* as refreshFailed, with the failure reported in lastError as well
refreshFailed_setsError(s, p) ==
    pushEvent([s EXCEPT !.lastError = Message, !.procs[p] = FreeProc],
              IF s.procs[p].op = "refresh" THEN "Twilio token refresh failed"
              ELSE "Twilio token refresh failed on expiry event")

\* the catch blocks (173-176, 262-265)
refreshFailed(s, p) ==
    pushEvent([s EXCEPT !.procs[p] = FreeProc],
              IF s.procs[p].op = "refresh" THEN "Twilio token refresh failed"
              ELSE "Twilio token refresh failed on expiry event")

\* the fresh token arrived (169-172, 259-261); updateOk: device.updateToken()
\* does not throw
refreshFetched(s, p, expiresIn, updateOk) ==
    LET d == s.procs[p].dev
        s1 == scheduleTokenRefresh(
                [s EXCEPT !.devices[d].staleToken = @ \/ s.devices[d].status = "destroyed",
                          !.procs[p] = FreeProc],
                expiresIn)
    IN  IF ~ updateOk THEN refreshFailed(s, p)
        ELSE IF s.procs[p].op = "refresh" THEN pushEvent(s1, "Twilio token refreshed")
        ELSE s1

\* --------------------------------------------- device listeners (235-323)
onDeviceReady(s) ==
    pushEvent([s EXCEPT !.connectionStatus = "registered", !.isClientReady = TRUE],
              "Twilio device ready")

onDeviceError(s) ==
    pushEvent([s EXCEPT !.connectionStatus = "error", !.lastError = Message],
              "Device error")

onDeviceDisconnect(s) ==
    pushEvent([s EXCEPT !.connectionStatus = "disconnected", !.isClientReady = FALSE],
              "Twilio device disconnected")

\* device.on('incoming'): connection c is the one the SDK hands over
onIncoming(s, c) ==
    pushEvent([s EXCEPT
        !.conns[c].listeners = @ \cup {"inCancel", "inReject"},
        !.incomingConnectionRef = c,
        !.callState = "incoming",
        !.incomingNumber = callerOf(s.conns[c].num),
        !.activeNumber = Nil,
        !.isMuted = FALSE,
        !.isOnHold = FALSE,
        !.lastError = NoError,
        !.callNoteRef = <<>>], "Incoming call")

\* the cancel and reject listeners of an inbound connection (279-294); message
\* is what the listener reports
onIncomingGone(s, c, message) ==
    LET s1 == pushEvent(s, message)
    IN  IF s.incomingConnectionRef = c
        THEN [s1 EXCEPT !.incomingConnectionRef = 0, !.callState = "idle",
                        !.incomingNumber = Nil]
        ELSE s1

\* device.on('connect')
onConnect(s, c) ==
    pushEvent([s EXCEPT
        !.conns[c].listeners = @ \cup {"disconnect", "connError"},
        !.activeConnectionRef = c,
        !.callState = "active",
        !.isMuted = s.conns[c].muted,
        !.isOnHold = s.conns[c].held,
        !.lastError = NoError,
        !.incomingNumber = Nil,
        !.startedAgo = 0,
        !.activeNumber = IF s.conns[c].dir = "in" THEN ClientIdentity
                         ELSE s.conns[c].num], "Call connected")

\* the disconnect listener the connect handler attaches (308-316)
onDisconnect(s, c) ==
    finalizeActiveLog(
        [pushEvent(s, "Call disconnected") EXCEPT
            !.activeConnectionRef = 0, !.callState = "completed",
            !.isMuted = FALSE, !.isOnHold = FALSE, !.activeNumber = Nil],
        "completed", c)

\* the error listener the connect handler attaches (317-322)
onConnectedError(s, c) ==
    finalizeActiveLog([pushEvent(s, "Call error") EXCEPT !.lastError = Message],
                      "failed", c)

\* the listeners makeCall attaches (384-407)
onRinging(s) == pushEvent([s EXCEPT !.callState = "ringing"], "Call ringing")

onCancel(s, c) ==
    finalizeActiveLog([pushEvent(s, "Call cancelled") EXCEPT !.callState = "failed"],
                      "cancelled", c)

onReject(s, c) ==
    finalizeActiveLog(
        [pushEvent(s, "Call rejected by Twilio") EXCEPT !.callState = "failed"],
        "failed", c)

onDialError(s, c) ==
    finalizeActiveLog(
        pushEvent([s EXCEPT !.lastError = Message, !.callState = "failed"], "Call error"),
        "failed", c)

\* attachOnce: the listener is detached before it runs
detach(s, c, names) == [s EXCEPT !.conns[c].listeners = @ \ names]

Attached(s, c, name) == name \in s.conns[c].listeners

\* the SDK has closed connection c: it emits nothing any more
closedConn(conn) ==
    [conn EXCEPT !.status = "closed", !.listeners = {}, !.muted = FALSE, !.held = FALSE]

sdkClosed(s, c) == [s EXCEPT !.conns[c] = closedConn(@)]

\* ------------------------------------------------------- makeCall (341-412)
\* lines 374-409: createUserCallLog settled; the destination is dialled
makeCall_logged(s, p, ok) ==
    LET k == s.procs[p].call
        d == s.procs[p].dev
        s0 == IF ok THEN [s EXCEPT !.activeLogIdRef = k, !.logs[k] = "created"]
              ELSE [s EXCEPT !.logs[k] = "failed"]
        s1 == pushEvent(s0, "Dialling")
    IN  IF s.devices[d].status # "live"
        THEN \* connect() of a destroyed device throws: makeCall rejects
             [s1 EXCEPT !.procs[p] = FreeProc]
        ELSE [s1 EXCEPT
                !.conns[k] = [status |-> "pending", dir |-> "out", dev |-> d,
                              num |-> normaliseDestination(s.procs[p].dest),
                              muted |-> FALSE, held |-> FALSE,
                              listeners |-> {"ringing", "cancel", "reject", "error"},
                              gotConnect |-> FALSE],
                !.activeConnectionRef = k,
                !.procs[p] = FreeProc]

\* --------------------------------------------------------- hangUp (414-431)
\* the connections connection.disconnect() and device.disconnectAll() close
hangUpTargets(s) ==
    { c \in CallIds :
        /\ \/ c = s.activeConnectionRef
           \/ s.deviceRef # 0 /\ s.conns[c].dev = s.deviceRef
        /\ \/ s.conns[c].status \in {"accepted", "open"}
           \/ s.conns[c].status = "pending" /\ s.conns[c].dir = "out" }

closeConns(s, cs, status) ==
    [s EXCEPT !.conns = [c \in CallIds |->
        IF c \in cs
        THEN IF status = "closed" THEN closedConn(s.conns[c])
             ELSE [s.conns[c] EXCEPT !.status = status]
        ELSE s.conns[c]]]

\* the calls of the makeCall invocations that are suspended (at line 352 or 365)
Suspended(s) ==
    { s.procs[p].call : p \in { q \in ProcIds : s.procs[q].op = "makeCall" } }

\* sync: the SDK delivers the disconnect notification inside disconnect()
hangUp_toCompleted(s, sync) ==
    LET cs == hangUpTargets(s)
        heard == { c \in cs : Attached(s, c, "disconnect") }
        first == IF s.activeConnectionRef \in heard THEN s.activeConnectionRef
                 ELSE CHOOSE c \in heard : \A e \in heard : c <= e
        s1 == IF sync /\ heard # {}
              THEN onDisconnect(closeConns(s, cs, "closed"), first)
              ELSE closeConns(s, cs, IF sync THEN "closed" ELSE "closing")
        s2 == finalizeActiveLog(s1, "completed", s.activeConnectionRef)
    IN  [s2 EXCEPT !.callState = "completed", !.isMuted = FALSE, !.isOnHold = FALSE,
                   !.activeNumber = Nil, !.incomingNumber = Nil,
                   !.callNoteRef = <<>>,
                   !.hungUp = IF s.history = "on" THEN @ \cup Suspended(s) ELSE @]

hangUp(s, sync) ==
    LET cs == hangUpTargets(s)
        heard == { c \in cs : Attached(s, c, "disconnect") }
        first == IF s.activeConnectionRef \in heard THEN s.activeConnectionRef
                 ELSE CHOOSE c \in heard : \A e \in heard : c <= e
        s1 == IF sync /\ heard # {}
              THEN onDisconnect(closeConns(s, cs, "closed"), first)
              ELSE closeConns(s, cs, IF sync THEN "closed" ELSE "closing")
        s2 == finalizeActiveLog(s1, "completed", s.activeConnectionRef)
    IN  [s2 EXCEPT !.callState = "idle", !.isMuted = FALSE, !.isOnHold = FALSE,
                   !.activeNumber = Nil, !.incomingNumber = Nil,
                   !.callNoteRef = <<>>,
                   !.hungUp = IF s.history = "on" THEN @ \cup Suspended(s) ELSE @]

\* --------------------------------------------- rejectIncomingCall (474-492)
rejectIncomingCall_keepsRef(s, ok, sync) ==
    LET c == s.incomingConnectionRef
    IN  IF ok
        THEN pushEvent([sdkClosed(s, c) EXCEPT
                           !.callState = "idle",
                           !.incomingNumber = Nil], "Rejected incoming call")
        ELSE pushEvent([s EXCEPT !.lastError = Message], "Unable to reject call")

\* ok: connection.reject() does not throw; sync: the SDK delivers the reject
\* notification inside reject()
rejectIncomingCall(s, ok, sync) ==
    LET c == s.incomingConnectionRef
        s1 == IF sync /\ Attached(s, c, "inReject")
              THEN onIncomingGone(sdkClosed(s, c), c, "Incoming call rejected")
              ELSE [s EXCEPT !.conns[c].status = IF sync THEN "closed" ELSE "rejecting"]
    IN  IF ok
        THEN pushEvent([s1 EXCEPT !.incomingConnectionRef = 0, !.callState = "idle",
                                  !.incomingNumber = Nil], "Rejected incoming call")
        ELSE pushEvent([s EXCEPT !.lastError = Message], "Unable to reject call")

\* ------------------------------- toggleMute / toggleHold / sendDigits (494-547)
\* A control is modelled by what it leaves behind (after) and what its promise
\* resolves to (returns).
\* as toggleMute, but the flag is flipped before the SDK is asked
toggleMute_flagFirst(s, ok) ==
    LET c == s.activeConnectionRef
        nextMuted == ~ s.conns[c].muted
    IN  IF c = 0 THEN [after |-> s, returns |-> FALSE]
        ELSE IF ok
        THEN [after |-> pushEvent(
                          [s EXCEPT !.conns[c].muted = nextMuted, !.isMuted = nextMuted],
                          IF nextMuted THEN "Call muted" ELSE "Call unmuted"),
              returns |-> TRUE]
        ELSE [after |-> pushEvent([s EXCEPT !.isMuted = nextMuted, !.lastError = Message],
                                  "Mute toggle failed"),
              returns |-> FALSE]

\* ok: connection.mute() does not throw
toggleMute(s, ok) ==
    LET c == s.activeConnectionRef
        nextMuted == ~ s.conns[c].muted
    IN  IF c = 0 THEN [after |-> s, returns |-> FALSE]
        ELSE IF ok
        THEN [after |-> pushEvent(
                          [s EXCEPT !.conns[c].muted = nextMuted, !.isMuted = nextMuted],
                          IF nextMuted THEN "Call muted" ELSE "Call unmuted"),
              returns |-> TRUE]
        ELSE [after |-> pushEvent([s EXCEPT !.lastError = Message], "Mute toggle failed"),
              returns |-> FALSE]

\* ok: the connection has the hold and isOnHold functions and hold does not throw
toggleHold(s, ok) ==
    LET c == s.activeConnectionRef
        nextHold == ~ s.conns[c].held
    IN  IF c = 0 THEN [after |-> s, returns |-> FALSE]
        ELSE IF ok
        THEN [after |-> pushEvent(
                          [s EXCEPT !.conns[c].held = nextHold, !.isOnHold = nextHold],
                          IF nextHold THEN "Call placed on hold" ELSE "Call resumed"),
              returns |-> TRUE]
        ELSE [after |-> pushEvent([s EXCEPT !.lastError = Message], "Hold toggle failed"),
              returns |-> FALSE]

\* digits.replace(/[^0-9A-D#*]/gi, ''): the i flag makes the class match the
\* letters of both cases
ToneChars == {"1", "9", "A", "D", "a", "d", "#", "*"}

KeepTones(digits) == SelectSeq(digits, LAMBDA ch : ch \in ToneChars)

\* the strings the call window passes to sendDigits
DigitValues == { <<>>, <<"x", "y", "z">>, <<"1", "-", "9", "#">>, <<"*", "D">>, <<"1", "a">> }

\* ok: connection.sendDigits() does not throw
sendDigits(s, digits, ok) ==
    LET c == s.activeConnectionRef
        cleaned == KeepTones(digits)
        s1 == [s EXCEPT !.sentDigits = Append(@, cleaned)]
    IN  IF c = 0 \/ cleaned = <<>> THEN [after |-> s, returns |-> FALSE]
        ELSE IF ok
        THEN [after |-> pushEvent(s1, "Sent DTMF"), returns |-> TRUE]
        ELSE [after |-> pushEvent([s1 EXCEPT !.lastError = Message], "DTMF failed"),
              returns |-> FALSE]

setCallNote(s, note) == [s EXCEPT !.callNoteRef = note]

\* ============================================================ Twilio steps
CanStartInit(s) ==
    \/ s.deviceRef # 0 /\ s.isClientReady
    \/ s.nDevices + Cardinality({ p \in ProcIds : s.procs[p].pc = "fetch" }) < MaxDevices

CallProcFree(s) ==
    /\ FreeProcs(s) # {}
    /\ Cardinality({ p \in ProcIds : s.procs[p].op \in {"makeCall", "accept"} })
          < MaxCallProcs

\* the UI (or an effect) calls initializeClient()
InitializeClient ==
    /\ FreeProcs(tw) # {}
    /\ CanStartInit(tw)
    /\ LET p == NewProc(tw)
       IN  tw' = initializeClient(
                    [tw EXCEPT !.procs[p] = [FreeProc EXCEPT !.op = "init"]], p, TRUE)
    /\ UNCHANGED tx

\* the dialer page mounts: its effect calls initializeClient() before any call
DialerPageMount ==
    /\ tw.nDevices = 0
    /\ tw.nCalls = 0
    /\ InFlight(tw) = {}
    /\ InitializeClient

\* fetchAccessToken resolves with a token that expires in expiresIn seconds
InitFetched(p, expiresIn) ==
    /\ tw.procs[p].pc = "fetch"
    /\ expiresIn > 0 => tw.nTimers < MaxTimers
    /\ tw' = initializeClient_fetched(tw, p, expiresIn)
    /\ UNCHANGED tx

\* the provider unmounts: the cleanup of the effect of lines 149-153
Teardown ==
    /\ tw' = clearDevice(tw)
    /\ UNCHANGED tx

\* the refresh timer t runs
TimerFires(t) ==
    /\ tw.timers[t].status = "pending"
    /\ FreeProcs(tw) # {}
    /\ tw' = onRefreshTimer([tw EXCEPT !.timers[t].status = "fired"], NewProc(tw))
    /\ UNCHANGED tx

\* device d reports that its token is about to expire
TokenWillExpire(d) ==
    /\ d \in LiveDevices(tw)
    /\ FreeProcs(tw) # {}
    /\ tw' = onTokenWillExpire(tw, NewProc(tw), d)
    /\ UNCHANGED tx

\* the refresh's fetchAccessToken resolves with a token that expires in
\* expiresIn seconds
RefreshFetched(p, expiresIn, updateOk) ==
    /\ tw.procs[p].pc = "refreshFetch"
    /\ (updateOk /\ expiresIn > 0) => tw.nTimers < MaxTimers
    /\ tw' = refreshFetched(tw, p, expiresIn, updateOk)
    /\ UNCHANGED tx

\* the refresh's fetchAccessToken rejects
RefreshFailed(p) ==
    /\ tw.procs[p].pc = "refreshFetch"
    /\ tw' = refreshFailed(tw, p)
    /\ UNCHANGED tx

\* fetchAccessToken or register() rejects: the invocation (and its caller) throws
InitFailed(p) ==
    /\ tw.procs[p].pc \in {"fetch", "register"}
    /\ tw' = [tw EXCEPT !.procs[p] = FreeProc]
    /\ UNCHANGED tx

\* register() resolves: initializeClient returns the device it constructed
InitRegistered(p) ==
    /\ tw.procs[p].pc = "register"
    /\ \E acceptOk \in BOOLEAN : tw' = afterInit(tw, p, tw.procs[p].dev, acceptOk)
    /\ UNCHANGED tx

DeviceReady(d) ==
    /\ d \in LiveDevices(tw)
    /\ tw' = onDeviceReady(tw)
    /\ UNCHANGED tx

DeviceError(d) ==
    /\ d \in LiveDevices(tw)
    /\ tw' = onDeviceError(tw)
    /\ UNCHANGED tx

DeviceDisconnect(d) ==
    /\ d \in LiveDevices(tw)
    /\ tw' = onDeviceDisconnect(tw)
    /\ UNCHANGED tx

\* an inbound call is offered on device d
Incoming(d, from) ==
    /\ d \in LiveDevices(tw)
    /\ tw.nCalls < MaxCalls
    /\ LET c == tw.nCalls + 1
       IN  tw' = onIncoming(
                    [tw EXCEPT !.nCalls = c,
                               !.conns[c] = [NoConn EXCEPT !.status = "pending",
                                    !.dir = "in", !.dev = d, !.num = from]], c)
    /\ UNCHANGED tx

\* the connect notification: an outbound call is answered, or an accepted
\* inbound call has its media
DeviceConnect(c) ==
    /\ tw.conns[c].dev \in LiveDevices(tw)
    /\ \/ tw.conns[c].status = "pending" /\ tw.conns[c].dir = "out"
       \/ tw.conns[c].status = "accepted"
    /\ tw' = onConnect([tw EXCEPT !.conns[c].status = "open",
                                  !.conns[c].gotConnect = TRUE], c)
    /\ UNCHANGED tx

ConnRinging(c) ==
    /\ tw.conns[c].status = "pending"
    /\ Attached(tw, c, "ringing")
    /\ tw' = onRinging(detach(tw, c, {"ringing"}))
    /\ UNCHANGED tx

ConnCancel(c) ==
    /\ tw.conns[c].status = "pending"
    /\ \/ /\ Attached(tw, c, "cancel")
          /\ tw' = onCancel(sdkClosed(tw, c), c)
       \/ /\ Attached(tw, c, "inCancel")
          /\ tw' = onIncomingGone(sdkClosed(tw, c), c,
                                   "Incoming call cancelled by remote party")
    /\ UNCHANGED tx

ConnReject(c) ==
    /\ \/ /\ tw.conns[c].status = "pending"
          /\ Attached(tw, c, "reject")
          /\ tw' = onReject(sdkClosed(tw, c), c)
       \/ /\ tw.conns[c].status = "rejecting"
          /\ Attached(tw, c, "inReject")
          /\ tw' = onIncomingGone(sdkClosed(tw, c), c, "Incoming call rejected")
    /\ UNCHANGED tx

\* the error notification of a connection: its listeners run in the order they
\* were attached (makeCall's, then the connect handler's)
ConnError(c) ==
    /\ tw.conns[c].status \in {"pending", "accepted", "open"}
    /\ Attached(tw, c, "error") \/ Attached(tw, c, "connError")
    /\ LET s0 == detach(tw, c, {"error", "connError"})
           s1 == IF Attached(tw, c, "error") THEN onDialError(s0, c) ELSE s0
       IN  tw' = IF Attached(tw, c, "connError") THEN onConnectedError(s1, c) ELSE s1
    /\ UNCHANGED tx

\* the disconnect notification: the far end hung up, or a local close is reported
ConnDisconnect(c) ==
    /\ tw.conns[c].status \in {"open", "closing"}
    /\ LET s0 == sdkClosed(tw, c)
       IN  tw' = IF Attached(tw, c, "disconnect") THEN onDisconnect(s0, c) ELSE s0
    /\ UNCHANGED tx

MakeCall(destination) ==
    /\ CallProcFree(tw)
    /\ LET trimmed == Trim(destination)
           p == NewProc(tw)
           k == tw.nCalls + 1
       IN  IF trimmed = <<>>
           THEN tw' = [tw EXCEPT !.lastError = Message]
           ELSE /\ tw.nCalls < MaxCalls
                /\ CanStartInit(tw)
                /\ tw' = initializeClient(
                            [tw EXCEPT !.nCalls = k,
                                       !.procs[p] = [FreeProc EXCEPT !.op = "makeCall",
                                                        !.call = k, !.dest = trimmed]],
                            p, TRUE)
    /\ UNCHANGED tx

\* createUserCallLog resolves (ok) or rejects
MakeCallLogged(p) ==
    /\ tw.procs[p].pc = "log"
    /\ \E ok \in BOOLEAN : tw' = makeCall_logged(tw, p, ok)
    /\ UNCHANGED tx

HangUp ==
    /\ \E sync \in BOOLEAN : tw' = hangUp(tw, sync)
    /\ UNCHANGED tx

AcceptIncomingCall ==
    /\ tw.incomingConnectionRef # 0
    /\ CallProcFree(tw)
    /\ CanStartInit(tw)
    /\ LET p == NewProc(tw)
       IN  \E acceptOk \in BOOLEAN :
             tw' = initializeClient(
                     [tw EXCEPT !.procs[p] = [FreeProc EXCEPT !.op = "accept",
                                                 !.call = tw.incomingConnectionRef]],
                     p, acceptOk)
    /\ UNCHANGED tx

\* createUserCallLog of the inbound record resolves (ok) or rejects (460-463)
AcceptLogged(p) ==
    /\ tw.procs[p].pc = "acceptLog"
    /\ LET c == tw.procs[p].call
       IN  \E ok \in BOOLEAN :
             tw' = IF ok
                   THEN [tw EXCEPT !.activeLogIdRef = c, !.logs[c] = "created",
                                   !.procs[p] = FreeProc]
                   ELSE [tw EXCEPT !.logs[c] = "failed", !.procs[p] = FreeProc]
    /\ UNCHANGED tx

RejectIncomingCall ==
    /\ tw.incomingConnectionRef # 0
    /\ \E ok, sync \in BOOLEAN : tw' = rejectIncomingCall(tw, ok, sync)
    /\ UNCHANGED tx

\* the SDK's mute and hold throw on a connection whose media is gone
MediaUp(s, c) == s.conns[c].status \in {"pending", "accepted", "open"}

\* the requests the SDK can accept
Accepts(s) ==
    IF s.activeConnectionRef # 0 /\ MediaUp(s, s.activeConnectionRef)
    THEN BOOLEAN ELSE {FALSE}

ToggleMute ==
    /\ \E ok \in Accepts(tw) : tw' = toggleMute(tw, ok).after
    /\ UNCHANGED tx

ToggleHold ==
    /\ \E ok \in Accepts(tw) : tw' = toggleHold(tw, ok).after
    /\ UNCHANGED tx

SendDigits(digits) ==
    /\ Len(tw.sentDigits) < MaxDigitsSent
    /\ \E ok \in Accepts(tw) : tw' = sendDigits(tw, digits, ok).after
    /\ UNCHANGED tx

ResetEvents ==
    /\ tw' = resetEvents(tw)
    /\ UNCHANGED tx

\* some handler reports message
PushEvent(message) ==
    /\ tw.nEvents < MAX_EVENT_ENTRIES + MaxOverflow
    /\ tw' = pushEvent(tw, message)
    /\ UNCHANGED tx

SetCallNote(note) ==
    /\ tw' = setCallNote(tw, note)
    /\ UNCHANGED tx

Tick ==
    /\ tw.startedAgo # NoStart
    /\ tw.startedAgo < MaxTime
    /\ tw' = [tw EXCEPT !.startedAgo = @ + 1]
    /\ UNCHANGED tx

\* ================================================================= Telnyx
\* TelnyxClientProvider (src/src/context/AuthContext.tsx, 429 ff.), with a user
\* signed in throughout.
ClientIds == 1..MaxClients
TelnyxCallIds == 1..MaxTelnyxCalls
PromiseIds == 1..MaxPromises

\* call.state / the state field of a callUpdate, as the SDK sends it; Undefined
\* stands for a missing field
Undefined == "undefined"
RawStates == {"ACTIVE", "held", "ringing", "hangup", "new"}

\* String.prototype.toLowerCase on the raw values
toLowerCase(value) == IF value = "ACTIVE" THEN "active" ELSE value

\* null for what is no string (or an empty one)
coerceString(value) == IF value \in {Undefined, ""} THEN Undefined ELSE value

normalizeCallState(state) ==
    LET value == coerceString(state)
        normalized == toLowerCase(value)
    IN  IF value = Undefined THEN Undefined
        ELSE IF normalized \in {"hangup", "destroy", "destroyed", "ended", "disconnected"}
        THEN "ended"
        ELSE IF normalized \in {"active", "answered", "up"} THEN "active"
        ELSE IF normalized \in {"held", "hold", "on_hold", "onhold"} THEN "held"
        ELSE IF normalized \in {"ringing", "progress", "progress_media"} THEN "ringing"
        ELSE IF normalized \in {"trying", "initiating", "connecting"} THEN "connecting"
        ELSE IF normalized \in {"error", "failed", "rejected", "busy"} THEN "error"
        ELSE value

\* the raw states the SDK still reports for a call that is over
OverStates == { r \in RawStates : normalizeCallState(r) = "ended" }

NoClient == [status |-> "none", connectCalls |-> 0, loginCalls |-> 0]
NoCall == [status |-> "none", client |-> 0]
FreeTelnyxProc == [op |-> "none", pc |-> "free", promise |-> 0, client |-> 0,
                   call |-> 0, dest |-> Nil]

TxInit ==
    [ callState |-> "idle",
      connectionStatus |-> "idle",
      lastError |-> NoError,
      isMuted |-> FALSE,
      isOnHold |-> FALSE,
      isClientReady |-> FALSE,
      clientRef |-> 0,
      callRef |-> 0,
      callCleanupRef |-> 0,
      callIdRef |-> 0,
      initializingRef |-> FALSE,
      readyPromiseRef |-> 0,
      \* useAuth().user is set; the provider is mounted
      user |-> TRUE,
      mounted |-> TRUE,
      \* SDK objects and promises
      clients |-> [c \in ClientIds |-> NoClient],
      calls |-> [k \in TelnyxCallIds |-> NoCall],
      promises |-> [q \in PromiseIds |-> "none"],
      \* suspended invocations of initializeClient / makeCall
      procs |-> [p \in ProcIds |-> FreeTelnyxProc],
      \* history
      nClients |-> 0,
      nTelnyxCalls |-> 0 ]

LiveClients(s) == { c \in ClientIds : s.clients[c].status = "live" }

\* the invocations inside the body of initializeClient (lines 741-827)
InBody(s) == { p \in ProcIds : s.procs[p].pc \in {"config", "connect", "login", "ready"} }

\* the invocations suspended at `await readyPromiseRef.current` (730, 737)
Joined(s) == { p \in ProcIds : s.procs[p].pc = "join" }

FreeTelnyxProcs(s) == { p \in ProcIds : s.procs[p].pc = "free" }

NewTelnyxProc(s) ==
    CHOOSE p \in FreeTelnyxProcs(s) : \A q \in FreeTelnyxProcs(s) : p <= q

\* a promise is rejected with the error of a failure (rejected) or with the
\* error of a teardown (cancelled)
Settled == {"resolved", "rejected", "cancelled"}

\* the invocations whose awaited ready promise has settled: they continue
\* before the event loop takes its next task
Resumable(s) ==
    { p \in ProcIds : /\ s.procs[p].pc \in {"ready", "join"}
                      /\ s.promises[s.procs[p].promise] \in Settled }

Quiet(s) == Resumable(s) = {}

\* a settled promise nothing waits for any more is forgotten
forget(s) ==
    [s EXCEPT !.promises = [q \in PromiseIds |->
        IF /\ s.promises[q] \in Settled
           /\ \A p \in ProcIds : s.procs[p].promise # q
        THEN "none" ELSE s.promises[q]]]

NewPromise(s) ==
    CHOOSE q \in PromiseIds :
        s.promises[q] = "none" /\ \A r \in PromiseIds : s.promises[r] = "none" => q <= r

\* readyResolveRef and readyRejectRef hold the functions of the promise in
\* readyPromiseRef: the three refs are set and cleared together (453-487)
resolveReadyPromise(s) ==
    IF s.readyPromiseRef # 0
    THEN [s EXCEPT !.promises[s.readyPromiseRef] = "resolved", !.readyPromiseRef = 0]
    ELSE s

rejectReadyPromise(s) ==
    IF s.readyPromiseRef # 0
    THEN [s EXCEPT !.promises[s.readyPromiseRef] = "rejected", !.readyPromiseRef = 0]
    ELSE s

\* as cancelReadyPromise, with the refs cleared and reject() not called
cancelReadyPromise_cleanupOnly(s) == [s EXCEPT !.readyPromiseRef = 0]

\* rejectReadyPromise(new Error('Telnyx client reset' | '... provider unmounted'))
cancelReadyPromise(s) ==
    IF s.readyPromiseRef # 0
    THEN [s EXCEPT !.promises[s.readyPromiseRef] = "cancelled", !.readyPromiseRef = 0]
    ELSE s

ensureReadyPromise(s) ==
    IF s.readyPromiseRef = 0
    THEN [s EXCEPT !.promises[NewPromise(s)] = "pending", !.readyPromiseRef = NewPromise(s)]
    ELSE s

detachCallListeners(s) == [s EXCEPT !.callCleanupRef = 0]

handleClientError(s) ==
    rejectReadyPromise(
        [s EXCEPT !.lastError = Message, !.connectionStatus = "error",
                  !.isClientReady = FALSE])

\* handleStateChanged (667-688) and the callUpdate branch (627-646) do the same
\* with the normalised state
applyCallState(s, raw) ==
    LET nextState == normalizeCallState(raw)
        s1 == [s EXCEPT !.callState = nextState,
                        !.isOnHold = IF nextState = "held" THEN TRUE
                                     ELSE IF nextState = "active" THEN FALSE ELSE @]
    IN  IF nextState = Undefined THEN s
        ELSE IF nextState \in {"ended", "error"}
        THEN [detachCallListeners(s1) EXCEPT !.callRef = 0, !.callIdRef = 0,
                                              !.isMuted = FALSE, !.isOnHold = FALSE]
        ELSE s1

\* handleNotification (578-657) for a notification of type callUpdate that
\* carries no gateway state, status code or message: id is the notification's
\* call id (0: none), raw its state
handleNotification(s, id, raw) ==
    LET matchesCurrentCall == s.callIdRef = 0 \/ id = 0 \/ s.callIdRef = id
    IN  IF matchesCurrentCall THEN applyCallState(s, raw) ELSE s

\* what the SDK answers to one invocation: does newCall succeed, does the new
\* call carry an id at once, and its initial state
SdkAnswers ==
    [newCallOk : BOOLEAN, idKnown : BOOLEAN, state : {Undefined, "new"}]

\* ------------------------------------------------------ makeCall (842-889)
\* lines 845-886, after `await initializeClient()` returned client
telnyxDial(s, p, client, env) ==
    LET k == s.procs[p].call
        s1 == IF s.callRef # 0
              THEN [detachCallListeners(s) EXCEPT !.callRef = 0, !.callIdRef = 0]
              ELSE s
        s2 == [s1 EXCEPT !.lastError = NoError, !.callState = "connecting",
                         !.isMuted = FALSE, !.isOnHold = FALSE]
        initialState == IF normalizeCallState(env.state) # Undefined
                        THEN normalizeCallState(env.state) ELSE "connecting"
    IN  IF client = 0 \/ s.procs[p].dest = <<>>
        THEN [s EXCEPT !.procs[p] = FreeTelnyxProc]
        ELSE IF env.newCallOk /\ s.clients[client].status = "live"
        THEN [s2 EXCEPT
                !.calls[k] = [status |-> "live", client |-> client],
                !.callRef = k,
                !.callIdRef = IF env.idKnown THEN k ELSE 0,
                !.callCleanupRef = k,
                !.callState = initialState,
                !.procs[p] = FreeTelnyxProc]
        ELSE [handleClientError([s2 EXCEPT !.callState = "error"])
                EXCEPT !.procs[p] = FreeTelnyxProc]

\* the caller of initializeClient goes on with the client it was handed
telnyxAfterInit(s, p, client, env) ==
    IF s.procs[p].op = "makeCall" THEN telnyxDial(s, p, client, env)
    ELSE [s EXCEPT !.procs[p] = FreeTelnyxProc]

\* ---------------------------------------------- initializeClient (718-840)
\* lines 741-748: the body is entered, up to the await of getTelnyxClientConfig
telnyxEnterBody(s, p) ==
    LET s1 == ensureReadyPromise(
                [s EXCEPT !.initializingRef = TRUE, !.isClientReady = FALSE,
                          !.connectionStatus = "connecting"])
    IN  [s1 EXCEPT !.procs[p] = [@ EXCEPT !.pc = "config",
                                          !.promise = s1.readyPromiseRef]]

telnyxJoin(s, p) ==
    [s EXCEPT !.procs[p] = [@ EXCEPT !.pc = "join", !.promise = s.readyPromiseRef]]

\* as initializeClient, without the test of line 736
telnyxInitializeClient_noJoin(s, p, env) ==
    IF ~ s.user THEN [s EXCEPT !.procs[p] = FreeTelnyxProc]
    ELSE IF s.clientRef # 0
    THEN IF s.isClientReady THEN telnyxAfterInit(s, p, s.clientRef, env)
         ELSE IF s.readyPromiseRef # 0 THEN telnyxJoin(s, p)
         ELSE telnyxAfterInit(s, p, s.clientRef, env)
    ELSE telnyxEnterBody(s, p)

\* lines 720-748: entry
telnyxInitializeClient(s, p, env) ==
    IF ~ s.user THEN [s EXCEPT !.procs[p] = FreeTelnyxProc]
    ELSE IF s.clientRef # 0
    THEN IF s.isClientReady THEN telnyxAfterInit(s, p, s.clientRef, env)
         ELSE IF s.readyPromiseRef # 0 THEN telnyxJoin(s, p)
         ELSE telnyxAfterInit(s, p, s.clientRef, env)
    ELSE IF s.initializingRef /\ s.readyPromiseRef # 0 THEN telnyxJoin(s, p)
    ELSE telnyxEnterBody(s, p)

\* lines 794-802: login() is called; when it returns a promise that is awaited,
\* and then the ready promise
telnyxLogin(s, p, loginAsync) ==
    [s EXCEPT !.clients[s.procs[p].client].loginCalls = @ + 1,
              !.procs[p].pc = IF loginAsync THEN "login" ELSE "ready"]

\* lines 749-792: the configuration arrived; the client is constructed, its
\* listeners attached, it is stored in clientRef and connect() is called
telnyxConfigLoaded(s, p, connectAsync, loginAsync) ==
    LET c == s.nClients + 1
        s1 == [s EXCEPT !.lastError = NoError,
                        !.nClients = c,
                        !.clients[c] = [status |-> "live", connectCalls |-> 1,
                                        loginCalls |-> 0],
                        !.clientRef = c,
                        !.procs[p].client = c]
    IN  IF connectAsync THEN [s1 EXCEPT !.procs[p].pc = "connect"]
        ELSE telnyxLogin(s1, p, loginAsync)

\* client.disconnect(): the client and its calls emit nothing any more
disconnectClient(s, c) ==
    [s EXCEPT !.clients[c].status = "disconnected",
              !.calls = [k \in TelnyxCallIds |->
                            IF s.calls[k].client = c /\ s.calls[k].status = "live"
                            THEN [s.calls[k] EXCEPT !.status = "over"]
                            ELSE s.calls[k]]]

\* lines 805-827: the catch block and the finally block
telnyxCatch(s, p) ==
    LET s1 == [rejectReadyPromise(s) EXCEPT !.lastError = Message,
                                            !.connectionStatus = "error"]
        s2 == IF s1.clientRef # 0
              THEN [disconnectClient(s1, s1.clientRef) EXCEPT !.clientRef = 0]
              ELSE s1
    IN  [detachCallListeners(s2) EXCEPT
            !.isClientReady = FALSE,
            !.callRef = 0,
            !.callIdRef = 0,
            !.initializingRef = FALSE,
            !.procs[p] = FreeTelnyxProc]

\* lines 802-804 and 825-827: the ready promise resolved; initializeClient
\* returns the client it constructed
telnyxReturn(s, p, env) ==
    telnyxAfterInit([s EXCEPT !.initializingRef = FALSE], p, s.procs[p].client, env)

\* an invocation goes on after the ready promise it awaited has settled
telnyxResume(s, p, env) ==
    LET settled == s.promises[s.procs[p].promise]
    IN  IF s.procs[p].pc = "ready"
        THEN IF settled = "resolved" THEN telnyxReturn(s, p, env) ELSE telnyxCatch(s, p)
        ELSE IF settled = "resolved" THEN telnyxAfterInit(s, p, s.clientRef, env)
        ELSE [s EXCEPT !.procs[p] = FreeTelnyxProc]

\* ----------------------------------------------------- client listeners
onSocketOpen(s) == [s EXCEPT !.connectionStatus = "connecting"]

onSocketClose(s) ==
    ensureReadyPromise(rejectReadyPromise(
        [s EXCEPT !.connectionStatus = "disconnected", !.isClientReady = FALSE]))

onReady(s) ==
    resolveReadyPromise(
        [s EXCEPT !.callState = "idle", !.connectionStatus = "registered",
                  !.isClientReady = TRUE])

\* ------------------------------------------- gateway notifications (537-552)
\* the gateway states the SDK reports in its notifications
GatewayValues == {"REGED", "UNREGED", "FAILED", "fail_wait", "NEW"}

\* String.prototype.toUpperCase on the gateway values
toUpperCase(value) == IF value = "fail_wait" THEN "FAIL_WAIT" ELSE value

\* GATEWAY_STATE_MAP[upper]?.state ?? 'info'
gatewayState(upper) ==
    IF upper = "REGED" THEN "registered"
    ELSE IF upper \in {"TRYING", "REGISTER"} THEN "registering"
    ELSE IF upper \in {"UNREGED", "UNREGISTER", "NOREG", "EXPIRED"} THEN "disconnected"
    ELSE IF upper \in {"FAILED", "FAIL_WAIT"} THEN "error"
    ELSE "info"

updateGatewayStatus(s, rawState) ==
    IF coerceString(rawState) = Undefined THEN s
    ELSE [s EXCEPT !.connectionStatus = gatewayState(toUpperCase(coerceString(rawState)))]

\* ---------------------------------------------------------- hangUp (891-903)
\* ok: call.hangup() does not throw
telnyxHangUp(s, ok) ==
    LET s1 == IF s.callRef = 0 THEN s
              ELSE IF ok THEN [s EXCEPT !.calls[s.callRef].status = "over"]
              ELSE handleClientError(s)
    IN  [detachCallListeners(s1) EXCEPT
            !.callRef = 0, !.callIdRef = 0, !.callState = "ended",
            !.isMuted = FALSE, !.isOnHold = FALSE]

\* ---------------------------------------------------- toggleHold (933-952)
\* lines 934-943: hold() or unhold() of the tracked call is called and awaited
telnyxToggleHold(s, p) ==
    IF s.callRef = 0 THEN s
    ELSE [s EXCEPT !.procs[p] = [FreeTelnyxProc EXCEPT
                                    !.op = "toggleHold",
                                    !.pc = IF s.isOnHold THEN "unhold" ELSE "hold",
                                    !.call = s.callRef]]

\* the awaited request resolves (lines 938-939, 943-944) or rejects (947-949)
telnyxHoldSettled(s, p, ok) ==
    IF ok
    THEN [s EXCEPT !.isOnHold = (s.procs[p].pc = "hold"),
                   !.callState = IF s.procs[p].pc = "hold" THEN "held" ELSE "active",
                   !.procs[p] = FreeTelnyxProc]
    ELSE [s EXCEPT !.lastError = Message, !.procs[p] = FreeTelnyxProc]

\* ------------------------------------------------------ teardown (500-535)
resetClientState(s) ==
    cancelReadyPromise(
        [detachCallListeners(s) EXCEPT
            !.callState = "idle",
            !.connectionStatus = "idle",
            !.lastError = NoError,
            !.isMuted = FALSE,
            !.isOnHold = FALSE,
            !.isClientReady = FALSE,
            !.callRef = 0,
            !.callIdRef = 0])

\* lines 529-532 and 518-521: the client is disconnected and forgotten
dropClient(s) ==
    IF s.clientRef # 0 THEN [disconnectClient(s, s.clientRef) EXCEPT !.clientRef = 0]
    ELSE s

\* the effect of lines 527-535, run with user = null
telnyxSignOut(s) == resetClientState(dropClient(s))

\* the cleanup of the effect of lines 516-525
telnyxUnmount(s) == cancelReadyPromise(detachCallListeners(dropClient(s)))

\* ============================================================ Telnyx steps
NoAnswer == [newCallOk |-> FALSE, idKnown |-> FALSE, state |-> Undefined]

AnswersFor(p) == IF tx.procs[p].op = "makeCall" THEN SdkAnswers ELSE {NoAnswer}

\* an invocation that would construct a client needs one within the bound
CanEnter(s) ==
    \/ s.clientRef # 0
    \/ s.initializingRef /\ s.readyPromiseRef # 0
    \/ s.nClients + Cardinality({ p \in ProcIds : s.procs[p].pc = "config" }) < MaxClients

\* a consumer of the context calls initializeClient()
TelnyxInitializeClient ==
    /\ Quiet(tx)
    /\ FreeTelnyxProcs(tx) # {}
    /\ CanEnter(tx)
    /\ LET p == NewTelnyxProc(tx)
       IN  tx' = forget(telnyxInitializeClient(
                    [tx EXCEPT !.procs[p] = [FreeTelnyxProc EXCEPT !.op = "init"]],
                    p, NoAnswer))
    /\ UNCHANGED tw

\* getTelnyxClientConfig resolves
TelnyxConfigLoaded(p) ==
    /\ Quiet(tx)
    /\ tx.procs[p].pc = "config"
    /\ \E connectAsync, loginAsync \in BOOLEAN :
          tx' = forget(telnyxConfigLoaded(tx, p, connectAsync, loginAsync))
    /\ UNCHANGED tw

\* the promise connect() returned resolves
TelnyxConnected(p) ==
    /\ Quiet(tx)
    /\ tx.procs[p].pc = "connect"
    /\ \E loginAsync \in BOOLEAN : tx' = forget(telnyxLogin(tx, p, loginAsync))
    /\ UNCHANGED tw

\* the promise login() returned resolves
TelnyxLoggedIn(p) ==
    /\ Quiet(tx)
    /\ tx.procs[p].pc = "login"
    /\ tx' = forget([tx EXCEPT !.procs[p].pc = "ready"])
    /\ UNCHANGED tw

\* getTelnyxClientConfig, connect() or login() rejects
TelnyxAwaitRejected(p) ==
    /\ Quiet(tx)
    /\ tx.procs[p].pc \in {"config", "connect", "login"}
    /\ tx' = forget(telnyxCatch(tx, p))
    /\ UNCHANGED tw

TelnyxResume(p) ==
    /\ p \in Resumable(tx)
    /\ \E env \in AnswersFor(p) : tx' = forget(telnyxResume(tx, p, env))
    /\ UNCHANGED tw

TelnyxSocketOpen(c) ==
    /\ Quiet(tx)
    /\ c \in LiveClients(tx)
    /\ tx' = forget(onSocketOpen(tx))
    /\ UNCHANGED tw

TelnyxSocketClose(c) ==
    /\ Quiet(tx)
    /\ c \in LiveClients(tx)
    /\ tx' = forget(onSocketClose(tx))
    /\ UNCHANGED tw

TelnyxClientError(c) ==
    /\ Quiet(tx)
    /\ c \in LiveClients(tx)
    /\ tx' = forget(handleClientError(tx))
    /\ UNCHANGED tw

TelnyxReady(c) ==
    /\ Quiet(tx)
    /\ c \in LiveClients(tx)
    /\ tx' = forget(onReady(tx))
    /\ UNCHANGED tw

\* client c delivers a notification that carries a gateway state, and neither a
\* status code, a message nor a call (582-585)
TelnyxGateway(c, rawState) ==
    /\ Quiet(tx)
    /\ c \in LiveClients(tx)
    /\ tx' = forget(updateGatewayStatus(tx, rawState))
    /\ UNCHANGED tw

\* the SDK's view of call k after it reported raw
reported(s, k, raw) ==
    IF normalizeCallState(raw) \in {"ended", "error"}
    THEN [s EXCEPT !.calls[k].status = "over"] ELSE s

\* client c delivers a callUpdate notification: without a call id, for a call
\* that is under way, or (late) for a call that is over
TelnyxCallUpdate(c, id, raw) ==
    /\ Quiet(tx)
    /\ c \in LiveClients(tx)
    /\ \/ id = 0
       \/ /\ id # 0
          /\ tx.calls[id].client = c
          /\ \/ tx.calls[id].status = "live"
             \/ tx.calls[id].status = "over" /\ raw \in OverStates
    /\ tx' = forget(handleNotification(
                       IF id # 0 THEN reported(tx, id, raw) ELSE tx, id, raw))
    /\ UNCHANGED tw

Listening(k) == tx.calls[k].status = "live" /\ tx.callCleanupRef = k

\* call k emits stateChanged
TelnyxStateChanged(k, raw) ==
    /\ Quiet(tx)
    /\ Listening(k)
    /\ tx' = forget(applyCallState(reported(tx, k, raw), raw))
    /\ UNCHANGED tw

\* call k emits hangup, destroy or destroyed: handleHangup
TelnyxCallHangup(k) ==
    /\ Quiet(tx)
    /\ Listening(k)
    /\ tx' = forget(applyCallState(reported(tx, k, "ended"), "ended"))
    /\ UNCHANGED tw

\* call k emits error: handleError
TelnyxCallError(k) ==
    /\ Quiet(tx)
    /\ Listening(k)
    /\ tx' = forget(applyCallState(handleClientError(reported(tx, k, "error")), "error"))
    /\ UNCHANGED tw

TelnyxMakeCall(destination) ==
    /\ Quiet(tx)
    /\ FreeTelnyxProcs(tx) # {}
    /\ CanEnter(tx)
    /\ tx.nTelnyxCalls < MaxTelnyxCalls
    /\ LET p == NewTelnyxProc(tx)
           trimmed == Trim(destination)
           k == IF trimmed = <<>> THEN 0 ELSE tx.nTelnyxCalls + 1
       IN  \E env \in SdkAnswers :
             tx' = forget(telnyxInitializeClient(
                     [tx EXCEPT !.nTelnyxCalls = IF k = 0 THEN @ ELSE k,
                                !.procs[p] = [FreeTelnyxProc EXCEPT
                                    !.op = "makeCall", !.call = k, !.dest = trimmed]],
                     p, env))
    /\ UNCHANGED tw

TelnyxHangUp ==
    /\ Quiet(tx)
    /\ \E ok \in BOOLEAN : tx' = forget(telnyxHangUp(tx, ok))
    /\ UNCHANGED tw

\* the user signs out: the effect of lines 527-535 runs with user = null
TelnyxSignOut ==
    /\ Quiet(tx)
    /\ tx.mounted
    /\ tx.user
    /\ tx' = forget(telnyxSignOut([tx EXCEPT !.user = FALSE]))
    /\ UNCHANGED tw

\* a user signs in again: the effect runs and does nothing
TelnyxSignIn ==
    /\ Quiet(tx)
    /\ tx.mounted
    /\ ~ tx.user
    /\ tx' = [tx EXCEPT !.user = TRUE]
    /\ UNCHANGED tw

\* the provider unmounts
TelnyxUnmount ==
    /\ Quiet(tx)
    /\ tx.mounted
    /\ tx' = forget(telnyxUnmount([tx EXCEPT !.mounted = FALSE]))
    /\ UNCHANGED tw

\* the user presses the hold button
TelnyxToggleHold ==
    /\ Quiet(tx)
    /\ FreeTelnyxProcs(tx) # {}
    /\ \A p \in ProcIds : tx.procs[p].op # "toggleHold"
    /\ tx' = telnyxToggleHold(tx, NewTelnyxProc(tx))
    /\ UNCHANGED tw

\* the SDK settles the hold() or unhold() request
TelnyxHoldSettled(p) ==
    /\ Quiet(tx)
    /\ tx.procs[p].op = "toggleHold"
    /\ \E ok \in BOOLEAN : tx' = telnyxHoldSettled(tx, p, ok)
    /\ UNCHANGED tw

Init == tw = TwInit /\ tx = TxInit

\* the same, in a run that keeps the event feed
InitFeed == tw = [TwInit EXCEPT !.feed = "on"] /\ tx = TxInit

\* the same, in a run that records the calls a hangUp overtook
InitHistory == tw = [TwInit EXCEPT !.history = "on"] /\ tx = TxInit

\* the device lifecycle: what the pages' effects and the SDK do with no call
NextTwilioDevice ==
    \/ InitializeClient
    \/ \E p \in ProcIds : InitFetched(p, NoExpiry)
    \/ \E p \in ProcIds : InitFailed(p)
    \/ \E p \in ProcIds : InitRegistered(p)
    \/ \E d \in DeviceIds : DeviceReady(d)
    \/ \E d \in DeviceIds : DeviceError(d)
    \/ \E d \in DeviceIds : DeviceDisconnect(d)

SpecTwilioDevice == Init /\ [][NextTwilioDevice]_vars

\* the calls of a dialer page: the page initialises the device when it mounts,
\* and its controls place and answer calls once the device is ready
Ready == tw.deviceRef # 0 /\ tw.isClientReady

NextTwilio ==
    \/ DialerPageMount
    \/ \E p \in ProcIds : InitFetched(p, NoExpiry)
    \/ \E p \in ProcIds : InitFailed(p)
    \/ \E p \in ProcIds : InitRegistered(p)
    \/ \E d \in DeviceIds : DeviceReady(d)
    \/ \E d \in DeviceIds, from \in FromValues : Incoming(d, from)
    \/ \E c \in CallIds : DeviceConnect(c)
    \/ \E c \in CallIds : ConnRinging(c)
    \/ \E c \in CallIds : ConnCancel(c)
    \/ \E c \in CallIds : ConnReject(c)
    \/ \E c \in CallIds : ConnError(c)
    \/ \E c \in CallIds : ConnDisconnect(c)
    \/ \E destination \in DestValues : Ready /\ MakeCall(destination)
    \/ \E p \in ProcIds : MakeCallLogged(p)
    \/ HangUp
    \/ Ready /\ AcceptIncomingCall
    \/ \E p \in ProcIds : AcceptLogged(p)
    \/ RejectIncomingCall

SpecTwilio == Init /\ [][NextTwilio]_vars

\* the same calls, with time passing while a call's start timestamp is held
SpecTwilioClock == Init /\ [][NextTwilio \/ Tick]_vars

\* the calls of a dialer page whose call window edits the call's note
NextTwilioNotes ==
    \/ DialerPageMount
    \/ \E p \in ProcIds : InitFetched(p, NoExpiry)
    \/ \E p \in ProcIds : InitRegistered(p)
    \/ \E d \in DeviceIds : DeviceReady(d)
    \/ \E d \in DeviceIds, from \in FromValues : Incoming(d, from)
    \/ \E c \in CallIds : DeviceConnect(c)
    \/ \E c \in CallIds : ConnCancel(c)
    \/ \E c \in CallIds : ConnError(c)
    \/ \E c \in CallIds : ConnDisconnect(c)
    \/ \E destination \in DestValues : Ready /\ MakeCall(destination)
    \/ \E p \in ProcIds : MakeCallLogged(p)
    \/ HangUp
    \/ Ready /\ AcceptIncomingCall
    \/ \E p \in ProcIds : AcceptLogged(p)
    \/ \E note \in NoteValues : SetCallNote(note)

SpecTwilioNotes == Init /\ [][NextTwilioNotes]_vars

\* makeCall called by a consumer that does not wait for the device to be ready
NextTwilioDial ==
    \/ \E destination \in DestValues : MakeCall(destination)
    \/ \E p \in ProcIds : InitFetched(p, NoExpiry)
    \/ \E p \in ProcIds : InitFailed(p)
    \/ \E p \in ProcIds : InitRegistered(p)
    \/ \E d \in DeviceIds : DeviceReady(d)
    \/ \E d \in DeviceIds : DeviceDisconnect(d)
    \/ \E p \in ProcIds : MakeCallLogged(p)
    \/ \E c \in CallIds : ConnRinging(c)
    \/ \E c \in CallIds : DeviceConnect(c)
    \/ \E c \in CallIds : ConnDisconnect(c)
    \/ HangUp

SpecTwilioDial == Init /\ [][NextTwilioDial]_vars

\* the same, with the calls a hangUp overtook recorded
SpecTwilioHangUp == InitHistory /\ [][NextTwilioDial]_vars

\* one outbound call at a time with the in-call controls of the call window
NextTwilioControls ==
    \/ DialerPageMount
    \/ \E p \in ProcIds : InitFetched(p, NoExpiry)
    \/ \E d \in DeviceIds : DeviceReady(d)
    \/ \E destination \in DestValues : Ready /\ MakeCall(destination)
    \/ \E p \in ProcIds : MakeCallLogged(p)
    \/ \E c \in CallIds : ConnRinging(c)
    \/ \E c \in CallIds : ConnCancel(c)
    \/ \E c \in CallIds : ConnReject(c)
    \/ \E c \in CallIds : ConnError(c)
    \/ \E c \in CallIds : DeviceConnect(c)
    \/ \E c \in CallIds : ConnDisconnect(c)
    \/ HangUp
    \/ ToggleMute
    \/ ToggleHold

SpecTwilioControls == Init /\ [][NextTwilioControls]_vars

\* the same with the event feed kept, for as long as few entries were pushed
FewEvents == tw.nEvents < MaxFeedEvents

NextTwilioControlsFeed ==
    \/ FewEvents /\ DialerPageMount
    \/ \E p \in ProcIds : FewEvents /\ InitFetched(p, NoExpiry)
    \/ \E d \in DeviceIds : FewEvents /\ DeviceReady(d)
    \/ \E destination \in DestValues : FewEvents /\ Ready /\ MakeCall(destination)
    \/ \E p \in ProcIds : FewEvents /\ MakeCallLogged(p)
    \/ \E c \in CallIds : FewEvents /\ ConnRinging(c)
    \/ \E c \in CallIds : FewEvents /\ ConnCancel(c)
    \/ \E c \in CallIds : FewEvents /\ ConnError(c)
    \/ \E c \in CallIds : FewEvents /\ DeviceConnect(c)
    \/ \E c \in CallIds : FewEvents /\ ConnDisconnect(c)
    \/ FewEvents /\ HangUp
    \/ FewEvents /\ ToggleMute
    \/ FewEvents /\ ToggleHold

SpecTwilioControlsFeed == InitFeed /\ [][NextTwilioControlsFeed]_vars

\* the seconds a token response gives for expiresIn
ExpiresInValues == {-1, NoExpiry, 1, 150, 151, 180}

\* the device, its refresh timer and the provider's teardown, with no call
NextTwilioRefresh ==
    \/ InitializeClient
    \/ \E p \in ProcIds, expiresIn \in ExpiresInValues : InitFetched(p, expiresIn)
    \/ \E p \in ProcIds : InitRegistered(p)
    \/ \E d \in DeviceIds : DeviceReady(d)
    \/ \E d \in DeviceIds : DeviceDisconnect(d)
    \/ \E t \in TimerIds : TimerFires(t)
    \/ \E d \in DeviceIds : TokenWillExpire(d)
    \/ \E p \in ProcIds, expiresIn \in ExpiresInValues, updateOk \in BOOLEAN :
          RefreshFetched(p, expiresIn, updateOk)
    \/ \E p \in ProcIds : RefreshFailed(p)
    \/ Teardown

SpecTwilioRefresh == Init /\ [][NextTwilioRefresh]_vars

\* the device and its refreshes with the event feed kept, for as long as few
\* entries were pushed
NextTwilioRefreshFeed ==
    \/ FewEvents /\ DialerPageMount
    \/ \E p \in ProcIds, expiresIn \in ExpiresInValues :
          FewEvents /\ InitFetched(p, expiresIn)
    \/ \E d \in DeviceIds : FewEvents /\ DeviceReady(d)
    \/ \E d \in DeviceIds : FewEvents /\ DeviceError(d)
    \/ \E t \in TimerIds : FewEvents /\ TimerFires(t)
    \/ \E d \in DeviceIds : FewEvents /\ TokenWillExpire(d)
    \/ \E p \in ProcIds, expiresIn \in ExpiresInValues, updateOk \in BOOLEAN :
          FewEvents /\ RefreshFetched(p, expiresIn, updateOk)
    \/ \E p \in ProcIds : FewEvents /\ RefreshFailed(p)

SpecTwilioRefreshFeed == InitFeed /\ [][NextTwilioRefreshFeed]_vars

\* the event feed alone: entries are pushed and the page clears the feed
NextTwilioFeed ==
    \/ PushEvent("Call ringing")
    \/ ResetEvents

SpecTwilioFeed == InitFeed /\ [][NextTwilioFeed]_vars

\* one answered outbound call at a time with the keypad of the call window
NextTwilioTones ==
    \/ DialerPageMount
    \/ \E p \in ProcIds : InitFetched(p, NoExpiry)
    \/ \E d \in DeviceIds : DeviceReady(d)
    \/ \E destination \in DestValues : Ready /\ MakeCall(destination)
    \/ \E p \in ProcIds : MakeCallLogged(p)
    \/ \E c \in CallIds : DeviceConnect(c)
    \/ \E c \in CallIds : ConnDisconnect(c)
    \/ HangUp
    \/ \E digits \in DigitValues : SendDigits(digits)

SpecTwilioTones == Init /\ [][NextTwilioTones]_vars

\* the same, with every token response carrying a positive expiresIn
PositiveExpiry == { e \in ExpiresInValues : e > 0 }

NextTwilioKeepFresh ==
    \/ InitializeClient
    \/ \E p \in ProcIds, expiresIn \in PositiveExpiry : InitFetched(p, expiresIn)
    \/ \E p \in ProcIds : InitRegistered(p)
    \/ \E d \in DeviceIds : DeviceReady(d)
    \/ \E d \in DeviceIds : DeviceDisconnect(d)
    \/ \E t \in TimerIds : TimerFires(t)
    \/ \E d \in DeviceIds : TokenWillExpire(d)
    \/ \E p \in ProcIds, expiresIn \in PositiveExpiry, updateOk \in BOOLEAN :
          RefreshFetched(p, expiresIn, updateOk)
    \/ \E p \in ProcIds : RefreshFailed(p)
    \/ Teardown

SpecTwilioKeepFresh == Init /\ [][NextTwilioKeepFresh]_vars

\* the teardown of either provider: a run exercises one of the two
OnlyTwilio == tx = TxInit
OnlyTelnyx == tw = TwInit

NextTeardown ==
    \/ OnlyTwilio /\ InitializeClient
    \/ \E p \in ProcIds, expiresIn \in ExpiresInValues :
          OnlyTwilio /\ InitFetched(p, expiresIn)
    \/ \E p \in ProcIds : OnlyTwilio /\ InitRegistered(p)
    \/ \E d \in DeviceIds : OnlyTwilio /\ DeviceReady(d)
    \/ \E d \in DeviceIds : OnlyTwilio /\ DeviceDisconnect(d)
    \/ \E t \in TimerIds : OnlyTwilio /\ TimerFires(t)
    \/ \E d \in DeviceIds : OnlyTwilio /\ TokenWillExpire(d)
    \/ \E p \in ProcIds, expiresIn \in ExpiresInValues, updateOk \in BOOLEAN :
          OnlyTwilio /\ RefreshFetched(p, expiresIn, updateOk)
    \/ \E p \in ProcIds : OnlyTwilio /\ RefreshFailed(p)
    \/ OnlyTwilio /\ Teardown
    \/ OnlyTelnyx /\ tx.mounted /\ TelnyxInitializeClient
    \/ \E p \in ProcIds : OnlyTelnyx /\ TelnyxConfigLoaded(p)
    \/ \E p \in ProcIds : OnlyTelnyx /\ TelnyxConnected(p)
    \/ \E p \in ProcIds : OnlyTelnyx /\ TelnyxLoggedIn(p)
    \/ \E p \in ProcIds : OnlyTelnyx /\ TelnyxAwaitRejected(p)
    \/ \E p \in ProcIds : OnlyTelnyx /\ TelnyxResume(p)
    \/ \E c \in ClientIds : OnlyTelnyx /\ TelnyxSocketClose(c)
    \/ \E c \in ClientIds : OnlyTelnyx /\ TelnyxClientError(c)
    \/ \E c \in ClientIds : OnlyTelnyx /\ TelnyxReady(c)
    \/ OnlyTelnyx /\ TelnyxSignOut
    \/ OnlyTelnyx /\ TelnyxSignIn
    \/ OnlyTelnyx /\ TelnyxUnmount

SpecTeardown == Init /\ [][NextTeardown]_vars

\* the connection status of either provider: the device or client is
\* initialised and reports its transport, and calls are dialled
NextStatus ==
    \/ OnlyTwilio /\ InitializeClient
    \/ \E p \in ProcIds : OnlyTwilio /\ InitFetched(p, NoExpiry)
    \/ \E p \in ProcIds : OnlyTwilio /\ InitFailed(p)
    \/ \E p \in ProcIds : OnlyTwilio /\ InitRegistered(p)
    \/ \E d \in DeviceIds : OnlyTwilio /\ DeviceReady(d)
    \/ \E d \in DeviceIds : OnlyTwilio /\ DeviceError(d)
    \/ \E d \in DeviceIds : OnlyTwilio /\ DeviceDisconnect(d)
    \/ OnlyTwilio /\ Teardown
    \/ \E destination \in DestValues : OnlyTwilio /\ Ready /\ MakeCall(destination)
    \/ \E p \in ProcIds : OnlyTwilio /\ MakeCallLogged(p)
    \/ OnlyTwilio /\ HangUp
    \/ \E p \in ProcIds : OnlyTelnyx /\ TelnyxConfigLoaded(p)
    \/ \E p \in ProcIds : OnlyTelnyx /\ TelnyxConnected(p)
    \/ \E p \in ProcIds : OnlyTelnyx /\ TelnyxLoggedIn(p)
    \/ \E p \in ProcIds : OnlyTelnyx /\ TelnyxAwaitRejected(p)
    \/ \E p \in ProcIds : OnlyTelnyx /\ TelnyxResume(p)
    \/ \E c \in ClientIds : OnlyTelnyx /\ TelnyxSocketClose(c)
    \/ \E c \in ClientIds : OnlyTelnyx /\ TelnyxClientError(c)
    \/ \E c \in ClientIds : OnlyTelnyx /\ TelnyxReady(c)
    \/ \E c \in ClientIds, rawState \in GatewayValues :
          OnlyTelnyx /\ TelnyxGateway(c, rawState)
    \/ \E destination \in DestValues : OnlyTelnyx /\ TelnyxMakeCall(destination)

SpecStatus == Init /\ [][NextStatus]_vars

\* initializeClient of either provider, called by the pages and by makeCall,
\* with the event feed kept: a run exercises one of the two
TwilioUnused == tw = [TwInit EXCEPT !.feed = "on"]

NextReady ==
    \/ OnlyTwilio /\ FewEvents /\ InitializeClient
    \/ \E p \in ProcIds : OnlyTwilio /\ FewEvents /\ InitFetched(p, NoExpiry)
    \/ \E p \in ProcIds : OnlyTwilio /\ FewEvents /\ InitRegistered(p)
    \/ \E p \in ProcIds : OnlyTwilio /\ FewEvents /\ InitFailed(p)
    \/ \E d \in DeviceIds : OnlyTwilio /\ FewEvents /\ DeviceReady(d)
    \/ \E d \in DeviceIds : OnlyTwilio /\ FewEvents /\ DeviceDisconnect(d)
    \/ \E destination \in DestValues : OnlyTwilio /\ FewEvents /\ MakeCall(destination)
    \/ \E p \in ProcIds : OnlyTwilio /\ FewEvents /\ MakeCallLogged(p)
    \/ OnlyTwilio /\ FewEvents /\ HangUp
    \/ TwilioUnused /\ TelnyxInitializeClient
    \/ \E p \in ProcIds : TwilioUnused /\ TelnyxConfigLoaded(p)
    \/ \E p \in ProcIds : TwilioUnused /\ TelnyxConnected(p)
    \/ \E p \in ProcIds : TwilioUnused /\ TelnyxLoggedIn(p)
    \/ \E p \in ProcIds : TwilioUnused /\ TelnyxAwaitRejected(p)
    \/ \E p \in ProcIds : TwilioUnused /\ TelnyxResume(p)
    \/ \E c \in ClientIds : TwilioUnused /\ TelnyxSocketClose(c)
    \/ \E c \in ClientIds : TwilioUnused /\ TelnyxReady(c)
    \/ \E destination \in DestValues : TwilioUnused /\ TelnyxMakeCall(destination)
    \/ TwilioUnused /\ TelnyxHangUp

SpecReady == InitFeed /\ [][NextReady]_vars

\* the calls of either provider and the reference that tracks them
NextTracked ==
    \/ OnlyTwilio /\ DialerPageMount
    \/ \E p \in ProcIds : OnlyTwilio /\ InitFetched(p, NoExpiry)
    \/ \E d \in DeviceIds : OnlyTwilio /\ DeviceReady(d)
    \/ \E destination \in DestValues : OnlyTwilio /\ Ready /\ MakeCall(destination)
    \/ \E p \in ProcIds : OnlyTwilio /\ MakeCallLogged(p)
    \/ \E d \in DeviceIds, from \in FromValues : OnlyTwilio /\ Incoming(d, from)
    \/ OnlyTwilio /\ Ready /\ AcceptIncomingCall
    \/ \E p \in ProcIds : OnlyTwilio /\ AcceptLogged(p)
    \/ OnlyTwilio /\ RejectIncomingCall
    \/ \E c \in CallIds : OnlyTwilio /\ ConnRinging(c)
    \/ \E c \in CallIds : OnlyTwilio /\ ConnCancel(c)
    \/ \E c \in CallIds : OnlyTwilio /\ ConnReject(c)
    \/ \E c \in CallIds : OnlyTwilio /\ ConnError(c)
    \/ \E c \in CallIds : OnlyTwilio /\ DeviceConnect(c)
    \/ \E c \in CallIds : OnlyTwilio /\ ConnDisconnect(c)
    \/ OnlyTwilio /\ HangUp
    \/ OnlyTwilio /\ ToggleHold
    \/ \E destination \in DestValues : OnlyTelnyx /\ TelnyxMakeCall(destination)
    \/ \E p \in ProcIds : OnlyTelnyx /\ TelnyxConfigLoaded(p)
    \/ \E p \in ProcIds : OnlyTelnyx /\ TelnyxConnected(p)
    \/ \E p \in ProcIds : OnlyTelnyx /\ TelnyxLoggedIn(p)
    \/ \E p \in ProcIds : OnlyTelnyx /\ TelnyxAwaitRejected(p)
    \/ \E p \in ProcIds : OnlyTelnyx /\ TelnyxResume(p)
    \/ \E c \in ClientIds : OnlyTelnyx /\ TelnyxReady(c)
    \/ \E k \in TelnyxCallIds, raw \in RawStates :
          OnlyTelnyx /\ TelnyxStateChanged(k, raw)
    \/ \E k \in TelnyxCallIds : OnlyTelnyx /\ TelnyxCallHangup(k)
    \/ \E k \in TelnyxCallIds : OnlyTelnyx /\ TelnyxCallError(k)
    \/ OnlyTelnyx /\ TelnyxHangUp
    \/ OnlyTelnyx /\ TelnyxToggleHold
    \/ \E p \in ProcIds : OnlyTelnyx /\ TelnyxHoldSettled(p)

SpecTracked == Init /\ [][NextTracked]_vars

\* initializeClient and the client's notifications, with no call
NextTelnyxInit ==
    \/ TelnyxInitializeClient
    \/ \E p \in ProcIds : TelnyxConfigLoaded(p)
    \/ \E p \in ProcIds : TelnyxConnected(p)
    \/ \E p \in ProcIds : TelnyxLoggedIn(p)
    \/ \E p \in ProcIds : TelnyxAwaitRejected(p)
    \/ \E p \in ProcIds : TelnyxResume(p)
    \/ \E c \in ClientIds : TelnyxSocketOpen(c)
    \/ \E c \in ClientIds : TelnyxSocketClose(c)
    \/ \E c \in ClientIds : TelnyxClientError(c)
    \/ \E c \in ClientIds : TelnyxReady(c)

SpecTelnyxInit == Init /\ [][NextTelnyxInit]_vars

\* initializeClient, the client's notifications, sign-out, sign-in and unmount;
\* the consumers call initializeClient while the provider is mounted
NextTelnyxTeardown ==
    \/ tx.mounted /\ TelnyxInitializeClient
    \/ \E p \in ProcIds : TelnyxConfigLoaded(p)
    \/ \E p \in ProcIds : TelnyxConnected(p)
    \/ \E p \in ProcIds : TelnyxLoggedIn(p)
    \/ \E p \in ProcIds : TelnyxAwaitRejected(p)
    \/ \E p \in ProcIds : TelnyxResume(p)
    \/ \E c \in ClientIds : TelnyxSocketClose(c)
    \/ \E c \in ClientIds : TelnyxClientError(c)
    \/ \E c \in ClientIds : TelnyxReady(c)
    \/ TelnyxSignOut
    \/ TelnyxSignIn
    \/ TelnyxUnmount

SpecTelnyxTeardown == Init /\ [][NextTelnyxTeardown]_vars

\* a settled promise's continuations are run by the microtask queue
SpecTelnyxTeardownFair ==
    SpecTelnyxTeardown /\ \A p \in ProcIds : WF_vars(TelnyxResume(p))

\* the calls: makeCall initialises the client itself
NextTelnyx ==
    \/ \E destination \in DestValues : TelnyxMakeCall(destination)
    \/ \E p \in ProcIds : TelnyxConfigLoaded(p)
    \/ \E p \in ProcIds : TelnyxConnected(p)
    \/ \E p \in ProcIds : TelnyxLoggedIn(p)
    \/ \E p \in ProcIds : TelnyxAwaitRejected(p)
    \/ \E p \in ProcIds : TelnyxResume(p)
    \/ \E c \in ClientIds : TelnyxClientError(c)
    \/ \E c \in ClientIds : TelnyxReady(c)
    \/ \E c \in ClientIds, id \in {0} \cup TelnyxCallIds, raw \in RawStates :
          TelnyxCallUpdate(c, id, raw)
    \/ \E k \in TelnyxCallIds, raw \in RawStates : TelnyxStateChanged(k, raw)
    \/ \E k \in TelnyxCallIds : TelnyxCallHangup(k)
    \/ \E k \in TelnyxCallIds : TelnyxCallError(k)
    \/ TelnyxHangUp

SpecTelnyx == Init /\ [][NextTelnyx]_vars

\* ============================================================== properties
FinalizedIds == { tw.finalizeCalls[i].logId : i \in DOMAIN tw.finalizeCalls }

\* ---------------------------------------------------------------------- C1
\* the invocations waiting for a ready promise that is still pending
Waiting(s) ==
    { p \in InBody(s) \cup Joined(s) : s.promises[s.procs[p].promise] = "pending" }

\* C1: with no reset and no sign-out, at most one invocation of
\* initializeClient is inside the initialisation; at most one constructed
\* client is alive, and connect() and login() were called on it at most once;
\* every invocation that waits, waits for the one ready promise readyPromiseRef
\* holds.
C1_SingleFlight ==
    /\ Cardinality(InBody(tx)) <= 1
    /\ Cardinality(LiveClients(tx)) <= 1
    /\ \A c \in ClientIds :
          tx.clients[c].connectCalls <= 1 /\ tx.clients[c].loginCalls <= 1
    /\ \A p \in Waiting(tx) : tx.procs[p].promise = tx.readyPromiseRef

\* one invocation has constructed the client and called connect() and login(),
\* a second one arrived meanwhile and waits for the same ready promise
C1_Witness ==
    /\ tx.nClients = 1
    /\ tx.clients[1].connectCalls = 1
    /\ tx.clients[1].loginCalls = 1
    /\ \E p \in InBody(tx), q \in Joined(tx) :
          /\ tx.procs[p].promise = tx.readyPromiseRef
          /\ tx.procs[q].promise = tx.readyPromiseRef
          /\ tx.promises[tx.readyPromiseRef] = "pending"

\* ---------------------------------------------------------------------- C2
\* C2: of the initializeClient invocations that are under way before the
\* device is ready, one alone has requested a token, constructed a Device and
\* called register() (the others wait for it), and the Device an invocation
\* returns is the one deviceRef holds.
C2_SingleFlight ==
    /\ Cardinality(InFlight(tw)) <= 1
    /\ \A p \in ProcIds : tw.procs[p].pc = "register" => tw.procs[p].dev = tw.deviceRef

\* ---------------------------------------------------------------------- C3
\* C3: at most one Device that was constructed and not destroyed exists, and
\* deviceRef never passes from one Device to another that leaves the first alive.
C3_OneLiveClient ==
    /\ Cardinality(LiveDevices(tw)) <= 1
    /\ \A d \in LiveDevices(tw) : tw.deviceRef = d

\* ---------------------------------------------------------------------- C4
\* C4: no two invocations of finalizeUserCallLog carry the same log id.
C4_FinalizedOnce ==
    \A i, j \in DOMAIN tw.finalizeCalls :
        tw.finalizeCalls[i].logId = tw.finalizeCalls[j].logId => i = j

\* the only call was cancelled (its log finalized as cancelled) and then hung
\* up: hangUp's finalizeActiveLog('completed') found nothing to finalize
C4_Witness ==
    /\ tw.nCalls = 1
    /\ tw.callState = "idle"
    /\ Len(tw.finalizeCalls) = 1
    /\ tw.finalizeCalls[1].logId = 1
    /\ tw.finalizeCalls[1].status = "cancelled"

\* ---------------------------------------------------------------------- C5
\* C5: the log record of every call that has ended (its connection is closed
\* and no createUserCallLog of this call is pending) has been finalized, and
\* every finalize was asked for by the record's own call.
C5_EndedCallsFinalized ==
    /\ \A c \in CallIds :
          (tw.logs[c] = "created" /\ tw.conns[c].status = "closed")
              => c \in FinalizedIds
    /\ \A i \in DOMAIN tw.finalizeCalls :
          tw.finalizeCalls[i].by = tw.finalizeCalls[i].logId

\* ---------------------------------------------------------------------- C6
\* C6: every finalize carries a duration >= 0, and 0 when the record's call
\* never received the connect notification.
C6_DurationOfOwnCall ==
    \A i \in DOMAIN tw.finalizeCalls :
        /\ tw.finalizeCalls[i].durationSeconds >= 0
        /\ ~ tw.conns[tw.finalizeCalls[i].logId].gotConnect
              => tw.finalizeCalls[i].durationSeconds = 0

\* ---------------------------------------------------------------------- C7
ValidDest == { d \in DestValues : Trim(d) # <<>> }

\* the outbound call c rang, was answered, is active and has its log record
ScenarioA(c) ==
    /\ tw.activeConnectionRef = c
    /\ tw.activeLogIdRef = c
    /\ tw.callState = "active"
    /\ tw.conns[c].dir = "out"
    /\ tw.conns[c].status = "open"
    /\ tw.conns[c].gotConnect
    /\ ~ Attached(tw, c, "ringing")

HangUpFinalizes(c) ==
    /\ Len(tw'.finalizeCalls) = Len(tw.finalizeCalls) + 1
    /\ tw'.finalizeCalls[Len(tw'.finalizeCalls)].logId = c
    /\ tw'.finalizeCalls[Len(tw'.finalizeCalls)].status = "completed"
    /\ tw'.activeLogIdRef = 0

ScenarioASteps(afterHangUp) ==
    /\ \A dest \in ValidDest :
          (tw.deviceRef # 0 /\ tw.isClientReady /\ MakeCall(dest))
              => tw'.callState = "connecting"
    /\ \A c \in CallIds :
          (tw.callState = "connecting" /\ tw.conns[c].dir = "out" /\ ConnRinging(c))
              => tw'.callState = "ringing"
    /\ \A c \in CallIds :
          (tw.callState = "ringing" /\ tw.conns[c].dir = "out" /\ DeviceConnect(c))
              => tw'.callState = "active"
    /\ \A c \in CallIds :
          (ScenarioA(c) /\ HangUp)
              => tw'.callState = afterHangUp /\ HangUpFinalizes(c)

C8_ScenarioB ==
    [][ /\ \A d \in DeviceIds, from \in FromValues :
              (tw.callState = "idle" /\ Incoming(d, from))
                  => /\ tw'.callState = "incoming"
                     /\ tw'.incomingNumber = normalisePhoneNumber(from)
                     /\ tw'.incomingConnectionRef = tw'.nCalls
        /\ ( /\ tw.callState = "incoming"
             /\ tw.incomingConnectionRef # 0
             /\ \E sync \in BOOLEAN : tw' = rejectIncomingCall(tw, TRUE, sync) )
              => /\ tw'.callState = "idle"
                 /\ tw'.incomingNumber = Nil
                 /\ tw'.incomingConnectionRef = 0
                 /\ tw'.logs = tw.logs
                 /\ tw'.activeLogIdRef = tw.activeLogIdRef
                 /\ tw'.finalizeCalls = tw.finalizeCalls ]_vars

\* the only call was offered while idle and rejected; the SDK has not yet
\* reported the reject
C8_Witness ==
    /\ tw.nCalls = 1
    /\ tw.conns[1].dir = "in"
    /\ tw.conns[1].status = "rejecting"
    /\ tw.callState = "idle"
    /\ tw.incomingNumber = Nil
    /\ tw.incomingConnectionRef = 0
    /\ tw.logs[1] = "none"
    /\ tw.finalizeCalls = <<>>

\* ---------------------------------------------------------------------- C9
Busy == {"incoming", "connecting", "ringing", "active", "held"}

\* C9: an inbound call offered while callState is incoming, connecting,
\* ringing, active or held changes neither callState, the connection refs, the
\* numbers, the mute and hold flags nor the note buffer.
C9_SecondIncomingIgnored ==
    [][ (tw.callState \in Busy /\ \E d \in DeviceIds, from \in FromValues : Incoming(d, from))
            => /\ tw'.callState = tw.callState
               /\ tw'.incomingConnectionRef = tw.incomingConnectionRef
               /\ tw'.activeConnectionRef = tw.activeConnectionRef
               /\ tw'.incomingNumber = tw.incomingNumber
               /\ tw'.activeNumber = tw.activeNumber
               /\ tw'.isMuted = tw.isMuted
               /\ tw'.isOnHold = tw.isOnHold
               /\ tw'.callNoteRef = tw.callNoteRef ]_vars

\* --------------------------------------------------------------------- C10
CallFields(s) == <<s.callState, s.isOnHold, s.isMuted, s.callRef, s.callIdRef>>

\* C10: a callUpdate notification changes callState, the hold and mute flags
\* or the tracked call only when its call id is the tracked call's id, or when
\* the tracked call has no id yet; a notification for a call that is over
\* changes none of them.
C10_StaleUpdatesIgnored ==
    [][ \A c \in ClientIds, id \in {0} \cup TelnyxCallIds, raw \in RawStates :
          (TelnyxCallUpdate(c, id, raw) /\ CallFields(tx') # CallFields(tx))
              => /\ \/ id # 0 /\ id = tx.callIdRef
                    \/ tx.callRef # 0 /\ tx.callIdRef = 0
                 /\ id # 0 => tx.calls[id].status # "over" ]_vars

\* --------------------------------------------------------------------- C11
\* the connection, call state and log bookkeeping of the call that is tracked
TrackedCall(s) == <<s.callState, s.activeConnectionRef, s.activeLogIdRef, s.finalizeCalls>>

\* C11: a disconnect or error notification of connection c that is delivered
\* while a connection started after c is the tracked one leaves callState, the
\* tracked connection, the tracked log id and the finalized records as they are.
C11_StaleNotificationsIgnored ==
    [][ \A c \in CallIds :
          ( /\ tw.activeConnectionRef > c
            /\ ConnDisconnect(c) \/ ConnError(c) )
              => TrackedCall(tw') = TrackedCall(tw) ]_vars

\* --------------------------------------------------------------------- C12
\* what makeCall must leave alone when it refuses to dial
DialFields(s) ==
    <<s.callState, s.isMuted, s.isOnHold, s.activeNumber, s.activeConnectionRef,
      s.incomingConnectionRef, s.activeLogIdRef, s.logs, s.conns>>

\* C12: makeCall with a destination, invoked while the device is not ready,
\* has returned to its caller when the step ends (no invocation of it stays
\* suspended), has requested no token and constructed no Device, and changes
\* neither callState, the mute and hold flags, the active number, the tracked
\* connections nor the call log.
C12_NotReadyRejected ==
    [][ \A destination \in DestValues :
          (~ Ready /\ Trim(destination) # <<>> /\ MakeCall(destination))
              => /\ tw'.procs = tw.procs
                 /\ tw'.devices = tw.devices
                 /\ tw'.deviceRef = tw.deviceRef
                 /\ DialFields(tw') = DialFields(tw) ]_vars

\* --------------------------------------------------------------------- C13
\* C13: while callState is completed or failed, isMuted and isOnHold are false.
C13_TerminalResetsFlags ==
    tw.callState \in {"completed", "failed"} => ~ tw.isMuted /\ ~ tw.isOnHold

\* --------------------------------------------------------------------- C14
\* toggleHold ran on the tracked connection and the SDK accepted the request
HoldToggled == tw.activeConnectionRef # 0 /\ tw' = toggleHold(tw, TRUE).after

\* C14: a toggleHold the SDK accepts takes an active call to callState held
\* and a held call back to active, and sets isOnHold and the connection's hold
\* state to the opposite of the connection's hold state before; with no
\* tracked connection toggleHold changes nothing.
C14_HoldToggles ==
    [][ /\ HoldToggled =>
              /\ tw'.isOnHold = ~ tw.conns[tw.activeConnectionRef].held
              /\ tw'.conns[tw.activeConnectionRef].held = tw'.isOnHold
        /\ (HoldToggled /\ tw.callState = "active") => tw'.callState = "held"
        /\ (HoldToggled /\ tw.callState = "held") => tw'.callState = "active"
        /\ (tw.activeConnectionRef = 0 /\ ToggleHold) => tw' = tw ]_vars

\* --------------------------------------------------------------------- C15
\* the step appends one entry to the feed, with this message
Logged(message) ==
    /\ tw'.nEvents = tw.nEvents + 1
    /\ tw'.events # <<>>
    /\ Head(tw'.events) = [id |-> tw'.nEvents, message |-> message]
    /\ Tail(tw'.events) = tw.events

\* toggleMute / toggleHold ran on the tracked connection and the SDK threw
MuteRefused == tw.activeConnectionRef # 0 /\ tw' = toggleMute(tw, FALSE).after
HoldRefused == tw.activeConnectionRef # 0 /\ tw' = toggleHold(tw, FALSE).after

\* C15: a toggleMute (toggleHold) whose SDK request throws resolves to false,
\* leaves isMuted, isOnHold and the connection's own mute and hold state as
\* they were and puts a failure entry at the head of the feed; a toggleMute
\* (toggleHold) step changes isMuted (isOnHold) only when the SDK accepted.
C15_RefusedToggleKeepsFlags ==
    [][ /\ MuteRefused =>
              /\ toggleMute(tw, FALSE).returns = FALSE
              /\ tw'.isMuted = tw.isMuted /\ tw'.isOnHold = tw.isOnHold
              /\ tw'.conns = tw.conns
              /\ Logged("Mute toggle failed")
        /\ HoldRefused =>
              /\ toggleHold(tw, FALSE).returns = FALSE
              /\ tw'.isMuted = tw.isMuted /\ tw'.isOnHold = tw.isOnHold
              /\ tw'.conns = tw.conns
              /\ Logged("Hold toggle failed")
        /\ (ToggleMute /\ tw'.isMuted # tw.isMuted) =>
              /\ tw' = toggleMute(tw, TRUE).after
              /\ tw'.conns[tw.activeConnectionRef].muted = tw'.isMuted
        /\ (ToggleHold /\ tw'.isOnHold # tw.isOnHold) =>
              /\ tw' = toggleHold(tw, TRUE).after
              /\ tw'.conns[tw.activeConnectionRef].held = tw'.isOnHold ]_vars

\* the answered call was muted, and a second toggleMute was then refused: the
\* flag is still set and the refusal heads the feed
C15_Witness ==
    /\ tw.nCalls = 1
    /\ tw.activeConnectionRef = 1
    /\ tw.conns[1].status = "open"
    /\ tw.isMuted
    /\ tw.conns[1].muted
    /\ tw.lastError = Message
    /\ Len(tw.events) >= 2
    /\ tw.events[1].message = "Mute toggle failed"
    /\ tw.events[2].message = "Call muted"

\* --------------------------------------------------------------------- C16
\* the characters of the tone alphabet [0-9A-D#*] among those of DigitValues
ToneAlphabet == {"1", "9", "A", "D", "#", "*"}

HasTone(digits) == \E i \in DOMAIN digits : digits[i] \in ToneAlphabet

\* C16: sendDigits resolves to true or false; with no tracked connection, or
\* for an input without a character of the tone alphabet, it resolves to false
\* and passes nothing to the SDK; every string the SDK was passed is non-empty
\* and made of characters of the tone alphabet only.
C16_OnlyTonesSent ==
    /\ \A digits \in DigitValues, ok \in BOOLEAN :
          /\ sendDigits(tw, digits, ok).returns \in BOOLEAN
          /\ (tw.activeConnectionRef = 0 \/ ~ HasTone(digits))
                => /\ sendDigits(tw, digits, ok).returns = FALSE
                   /\ sendDigits(tw, digits, ok).after = tw
    /\ \A i \in DOMAIN tw.sentDigits :
          /\ tw.sentDigits[i] # <<>>
          /\ \A j \in DOMAIN tw.sentDigits[i] : tw.sentDigits[i][j] \in ToneAlphabet

\* --------------------------------------------------------------------- C17
\* the feed prev after a push: all of it, or all but its oldest (last) entry
\* when it is full
KeptOf(prev) ==
    IF Len(prev) = MAX_EVENT_ENTRIES THEN SubSeq(prev, 1, MAX_EVENT_ENTRIES - 1) ELSE prev

\* C17: the feed never holds more than MAX_EVENT_ENTRIES entries; a push puts
\* the new entry at the head and keeps the entries held before in their order,
\* without the oldest one when MAX_EVENT_ENTRIES were held; resetEvents empties
\* the feed.  The Telnyx provider's pushEvent does the same on every such feed.
C17_FeedCapped ==
    [][ /\ Len(tw.events) <= MAX_EVENT_ENTRIES
        /\ Len(tw'.events) <= MAX_EVENT_ENTRIES
        /\ PushEvent("Call ringing") =>
              /\ Head(tw'.events).message = "Call ringing"
              /\ \A i \in DOMAIN tw.events : Head(tw'.events).id # tw.events[i].id
              /\ Tail(tw'.events) = KeptOf(tw.events)
        /\ ResetEvents => tw'.events = <<>>
        /\ LET next == telnyxPushEvent(tw.events, "entry")
           IN  /\ Len(next) <= MAX_EVENT_ENTRIES
               /\ Head(next) = "entry"
               /\ Tail(next) = KeptOf(tw.events) ]_vars

\* the feed is full and one entry, the first that was pushed, has been evicted
C17_Witness ==
    /\ Len(tw.events) = MAX_EVENT_ENTRIES
    /\ tw.nEvents = MAX_EVENT_ENTRIES + 1
    /\ tw.events[1].id = MAX_EVENT_ENTRIES + 1
    /\ tw.events[MAX_EVENT_ENTRIES].id = 2

\* --------------------------------------------------------------------- C18
\* the larger of two numbers
Larger(a, b) == IF a > b THEN a ELSE b

\* the step arms a new timer for `seconds`, and no other timer is left pending
Armed(seconds) ==
    /\ tw'.nTimers = tw.nTimers + 1
    /\ tw'.tokenRefreshTimerRef = tw'.nTimers
    /\ tw'.timers[tw'.nTimers] = [status |-> "pending", ms |-> seconds * 1000]
    /\ PendingTimers(tw') = {tw'.nTimers}

\* C18: a token that arrives with a positive expiresIn (at initialisation, or
\* at a refresh whose updateToken succeeded) arms the refresh timer for
\* max(expiresIn - 120, 30) seconds, and the timer that was pending before is
\* cancelled: no other timer is pending afterwards.
C18_RefreshDelay ==
    [][ \A p \in ProcIds, expiresIn \in ExpiresInValues :
          ( /\ expiresIn > 0
            /\ InitFetched(p, expiresIn) \/ RefreshFetched(p, expiresIn, TRUE) )
              => Armed(Larger(expiresIn - 120, 30)) ]_vars

\* a token with expiresIn = 150 armed a timer for 30 s; while that timer was
\* pending a refresh brought a token with expiresIn = 180: the first timer is
\* cancelled and the second is armed for 60 s
C18_Witness ==
    /\ tw.nTimers = 2
    /\ tw.timers[1] = [status |-> "cleared", ms |-> 30000]
    /\ tw.timers[2] = [status |-> "pending", ms |-> 60000]
    /\ tw.tokenRefreshTimerRef = 2
    /\ tw.nDevices = 1

\* --------------------------------------------------------------------- C19
\* what a failed refresh must leave alone
SessionFields(s) ==
    <<s.lastError, s.connectionStatus, s.isClientReady, s.deviceRef, s.devices,
      s.conns, s.timers, s.tokenRefreshTimerRef>>

\* the refresh p fails: its token fetch rejects, or updateToken throws
RefreshFails(p) ==
    \/ RefreshFailed(p)
    \/ \E expiresIn \in ExpiresInValues : RefreshFetched(p, expiresIn, FALSE)

\* C19: a refresh that fails, started by the timer or by tokenWillExpire,
\* leaves lastError, connectionStatus, isClientReady, deviceRef, the devices,
\* their connections and the pending timer as they were, and puts the entry
\* that records the failure at the head of the feed.
C19_RefreshFailureNonFatal ==
    [][ \A p \in ProcIds :
          RefreshFails(p) =>
              /\ SessionFields(tw') = SessionFields(tw)
              /\ \/ tw.procs[p].op = "refresh" /\ Logged("Twilio token refresh failed")
                 \/ /\ tw.procs[p].op = "expiry"
                    /\ Logged("Twilio token refresh failed on expiry event") ]_vars

\* the device is ready, its timer ran and the refresh it started failed: the
\* failure heads the feed, lastError is unset and the device is still the live,
\* ready one
C19_Witness ==
    /\ tw.events # <<>>
    /\ Head(tw.events).message = "Twilio token refresh failed"
    /\ tw.lastError = NoError
    /\ tw.connectionStatus = "registered"
    /\ tw.isClientReady
    /\ tw.deviceRef = 1
    /\ tw.devices[1].status = "live"
    /\ tw.timers[1].status = "fired"

\* --------------------------------------------------------------------- C20
\* C20: clearDevice leaves no timer pending; and from then until
\* initializeClient is called again no timer becomes pending, no Device is
\* alive and no token is swapped into a destroyed Device.
C20_TeardownStopsRefresh ==
    [][ /\ Teardown => PendingTimers(tw') = {}
        /\ tw'.tornDown =>
              /\ PendingTimers(tw') = {}
              /\ tw'.deviceRef = 0
        /\ (tw.tornDown /\ tw'.tornDown) =>
              \A d \in DeviceIds : tw'.devices[d].staleToken = tw.devices[d].staleToken ]_vars

\* --------------------------------------------------------------------- C21
\* the invocations suspended at an await of the ready promise (730, 737, 802)
\* whose promise has this status
AwaitingReady(s, status) ==
    { p \in ProcIds : /\ s.procs[p].pc \in {"ready", "join"}
                      /\ s.promises[s.procs[p].promise] = status }

TelnyxTeardownStep ==
    /\ (TelnyxSignOut \/ TelnyxUnmount) =>
          /\ \A p \in AwaitingReady(tx, "pending") :
                tx'.promises[tx.procs[p].promise] = "cancelled"
          /\ AwaitingReady(tx', "pending") = {}
          /\ tx'.readyPromiseRef = 0
    /\ \A q \in PromiseIds :
          tx.promises[q] \in Settled => tx'.promises[q] \in {tx.promises[q], "none"}
    /\ \A p \in AwaitingReady(tx, "cancelled") :
          TelnyxResume(p) =>
              /\ tx'.procs[p] = FreeTelnyxProc
              /\ tx.procs[p].pc = "ready" =>
                    /\ tx'.connectionStatus = "error"
                    /\ tx'.clientRef = 0
                    /\ ~ tx'.isClientReady

\* C21: a sign-out or an unmount rejects, with its own error, the ready
\* promise every suspended initializeClient invocation awaits, leaves no
\* invocation waiting for a pending promise and clears readyPromiseRef; a
\* settled promise is never settled again; and every invocation whose promise
\* was rejected this way goes on, throws (the one inside the initialisation
\* through its catch block, which reports the error and forgets the client)
\* and is over.
C21_TeardownRejectsWaiters ==
    /\ [][TelnyxTeardownStep]_vars
    /\ \A p \in ProcIds :
          (p \in AwaitingReady(tx, "cancelled")) ~> (tx.procs[p].pc = "free")

\* the user signed out while one invocation, having constructed the client,
\* and a second one that had joined it were awaiting the ready promise: the
\* promise of both is rejected with the teardown's error
C21_Witness ==
    /\ ~ tx.user
    /\ tx.readyPromiseRef = 0
    /\ \E p, q \in ProcIds :
          /\ tx.procs[p].pc = "ready"
          /\ tx.procs[q].pc = "join"
          /\ tx.procs[p].promise = tx.procs[q].promise
          /\ tx.promises[tx.procs[p].promise] = "cancelled"

\* --------------------------------------------------------------------- C22
\* the Twilio provider's state after clearDevice ran with no Device
TwilioTornDown(s, before) ==
    /\ s.deviceRef = 0
    /\ ~ s.isClientReady
    /\ s.activeConnectionRef = 0
    /\ s.incomingConnectionRef = 0
    /\ PendingTimers(s) = {}
    /\ s.devices = before.devices
    /\ s.conns = before.conns

\* the Telnyx provider's state after the sign-out effect ran with no client
TelnyxTornDown(s, before) ==
    /\ s.clientRef = 0
    /\ ~ s.isClientReady
    /\ s.callRef = 0
    /\ s.callIdRef = 0
    /\ s.callCleanupRef = 0
    /\ s.readyPromiseRef = 0
    /\ s.clients = before.clients

\* C22: in every state without a Device, clearDevice leaves deviceRef and the
\* two connection refs null, isClientReady false and no timer pending, and
\* touches no SDK object; in every state without a client the sign-out effect
\* (resetClientState) leaves clientRef and the call refs null and isClientReady
\* false; and in every state either teardown run twice gives the state it
\* gives when run once.
C22_TeardownSafe ==
    /\ tw.deviceRef = 0 => TwilioTornDown(clearDevice(tw), tw)
    /\ clearDevice(clearDevice(tw)) = clearDevice(tw)
    /\ tx.clientRef = 0 => TelnyxTornDown(telnyxSignOut(tx), tx)
    /\ telnyxSignOut(telnyxSignOut(tx)) = telnyxSignOut(tx)
    /\ resetClientState(resetClientState(tx)) = resetClientState(tx)

\* the provider was torn down before any Device was constructed, while the
\* first initializeClient was awaiting its token
C22_Witness ==
    /\ tw.tornDown
    /\ tw.nDevices = 0
    /\ tw.deviceRef = 0
    /\ tw.connectionStatus = "disconnected"
    /\ \E p \in ProcIds : tw.procs[p].pc = "fetch"
    /\ clearDevice(tw) = tw

\* --------------------------------------------------------------------- C23
\* C23: whenever connectionStatus is error, lastError holds a message (in
\* either provider): a step that sets the status to error sets lastError with
\* it, and lastError is not cleared while the status stays error.
C23_ErrorHasMessage ==
    /\ tw.connectionStatus = "error" => tw.lastError # NoError
    /\ tx.connectionStatus = "error" => tx.lastError # NoError

\* --------------------------------------------------------------------- C24
\* the step invokes finalizeUserCallLog
Finalizes == Len(tw'.finalizeCalls) = Len(tw.finalizeCalls) + 1

\* a call starts in this step: makeCall goes on to dial, an inbound call is
\* announced, or acceptIncomingCall answers one
CallStarts ==
    \/ \E destination \in ValidDest : Ready /\ MakeCall(destination)
    \/ \E d \in DeviceIds, from \in FromValues : Incoming(d, from)
    \/ /\ AcceptIncomingCall
       /\ tw'.activeConnectionRef = tw.incomingConnectionRef

\* C24: callNoteRef is empty after every step that starts a call and after
\* every step that finalizes a record; the note of the finalized record is the
\* trimmed buffer; and while a call's record is open (activeLogIdRef holds it
\* before and after the step) the buffer is changed by setCallNote alone, so
\* that the record is finalized with the text last passed to setCallNote for
\* its call.
C24_NoteOfOwnCall ==
    [][ /\ CallStarts => tw'.callNoteRef = <<>>
        /\ Finalizes =>
              /\ tw'.callNoteRef = <<>>
              /\ tw'.finalizeCalls[Len(tw'.finalizeCalls)].note = Trim(tw.callNoteRef)
        /\ ( /\ tw.activeLogIdRef # 0
             /\ tw'.activeLogIdRef = tw.activeLogIdRef
             /\ tw'.callNoteRef # tw.callNoteRef )
              => \E note \in NoteValues : SetCallNote(note) ]_vars

\* --------------------------------------------------------------------- C25
\* the messages of the entries the step pushes to the feed
Pushed == { tw'.events[i].message : i \in 1..(tw'.nEvents - tw.nEvents) }

\* createUserCallLog of makeCall invocation p rejects and the device is alive
LogCreationFails(p) ==
    /\ tw.procs[p].pc = "log"
    /\ tw.devices[tw.procs[p].dev].status = "live"
    /\ FewEvents
    /\ tw' = makeCall_logged(tw, p, FALSE)

\* C25: when createUserCallLog rejects, makeCall goes on to dial (the
\* connection is created and tracked), records no log id, and the step pushes
\* an entry for the failure besides the Dialling entry; and no finalize is
\* asked for by a call whose record was not created.
C25_LogFailureReported ==
    [][ /\ \A p \in ProcIds :
              LogCreationFails(p) =>
                  /\ tw'.conns[tw.procs[p].call].status = "pending"
                  /\ tw'.conns[tw.procs[p].call].dir = "out"
                  /\ tw'.activeConnectionRef = tw.procs[p].call
                  /\ tw'.activeLogIdRef = tw.activeLogIdRef
                  /\ tw'.logs[tw.procs[p].call] = "failed"
                  /\ Pushed \ {"Dialling"} # {}
        /\ (Finalizes /\ tw'.finalizeCalls[Len(tw'.finalizeCalls)].by # 0) =>
              tw.logs[tw'.finalizeCalls[Len(tw'.finalizeCalls)].by] # "failed" ]_vars

\* ---------------------------------------------------------------------- C26
\* An initializeClient that finds the client ready hands its caller the
\* existing client: it requests no token and no profile, constructs no client,
\* calls neither register nor connect nor login, and leaves connectionStatus
\* and the event feed as they were.  Called by a page it changes nothing at
\* all; called by makeCall, the call is placed on the existing client in the
\* same turn.
TelnyxIsReady == tx.user /\ tx.clientRef # 0 /\ tx.isClientReady

Initialising(s) == { p \in ProcIds : s.procs[p].pc \in {"fetch", "register"} }

TelnyxInitialising(s) ==
    { p \in ProcIds : s.procs[p].pc \in {"config", "connect", "login", "ready", "join"} }

ReadyInitIsNoOp ==
    /\ Ready =>
          \A p \in FreeProcs(tw) :
             initializeClient([tw EXCEPT !.procs[p] = [FreeProc EXCEPT !.op = "init"]],
                              p, TRUE)
                = [tw EXCEPT !.tornDown = FALSE]
    /\ TelnyxIsReady =>
          \A p \in FreeTelnyxProcs(tx) :
             telnyxInitializeClient(
                 [tx EXCEPT !.procs[p] = [FreeTelnyxProc EXCEPT !.op = "init"]],
                 p, NoAnswer) = tx

ReadyMakeCallStep ==
    /\ (Ready /\ \E destination \in DestValues : MakeCall(destination)) =>
          /\ tw'.nDevices = tw.nDevices
          /\ tw'.devices = tw.devices
          /\ tw'.deviceRef = tw.deviceRef
          /\ tw'.timers = tw.timers
          /\ Initialising(tw') = Initialising(tw)
          /\ tw'.connectionStatus = tw.connectionStatus
          /\ tw'.isClientReady
          /\ tw'.nEvents = tw.nEvents
          /\ tw'.events = tw.events
          /\ \A p \in ProcIds :
                tw'.procs[p] # tw.procs[p] =>
                   tw'.procs[p].pc = "log" /\ tw'.procs[p].dev = tw.deviceRef
    /\ (TelnyxIsReady /\ \E destination \in DestValues : TelnyxMakeCall(destination)) =>
          /\ tx'.nClients = tx.nClients
          /\ tx'.clients = tx.clients
          /\ tx'.clientRef = tx.clientRef
          /\ tx'.readyPromiseRef = tx.readyPromiseRef
          /\ TelnyxInitialising(tx') = TelnyxInitialising(tx)
          /\ tx'.nTelnyxCalls > tx.nTelnyxCalls =>
                \/ /\ tx'.callRef = tx'.nTelnyxCalls
                   /\ tx'.calls[tx'.callRef].client = tx.clientRef
                   /\ tx'.connectionStatus = tx.connectionStatus
                   /\ tx'.isClientReady
                \/ tx'.callState = "error"

C26_ReadyShortcut == []ReadyInitIsNoOp /\ [][ReadyMakeCallStep]_vars

\* a page's initializeClient still awaits register() of the device it made,
\* the device has reported ready, and a makeCall went on with that device
C26_Witness ==
    /\ Ready
    /\ tw.nDevices = 1
    /\ \E p, q \in ProcIds :
          /\ tw.procs[p].op = "init" /\ tw.procs[p].pc = "register"
          /\ tw.procs[q].op = "makeCall" /\ tw.procs[q].pc = "log"
          /\ tw.procs[q].dev = tw.procs[p].dev

\* ---------------------------------------------------------------------- C27
\* The reference that tracks the call is null whenever callState is terminal
\* (Twilio: completed, failed; Telnyx: ended, error) and is set whenever
\* callState is active or held.
TwilioTerminalUntracked ==
    tw.callState \in {"completed", "failed"} => tw.activeConnectionRef = 0

TwilioLiveTracked ==
    tw.callState \in {"active", "held"} => tw.activeConnectionRef # 0

TelnyxTerminalUntracked ==
    tx.callState \in {"ended", "error"} => tx.callRef = 0

TelnyxLiveTracked ==
    tx.callState \in {"active", "held"} => tx.callRef # 0

C27_TrackedCall ==
    /\ TwilioTerminalUntracked
    /\ TwilioLiveTracked
    /\ TelnyxTerminalUntracked
    /\ TelnyxLiveTracked

\* ---------------------------------------------------------------------- C28
\* The ready flag is true only while a client handle exists and
\* connectionStatus is registered: whatever moves connectionStatus away from
\* registered (a transport error, a disconnect, a gateway de-registration, a
\* teardown) also sets isClientReady to false.
TwilioReadyIsRegistered ==
    tw.isClientReady => tw.deviceRef # 0 /\ tw.connectionStatus = "registered"

TelnyxReadyIsRegistered ==
    tx.isClientReady => tx.clientRef # 0 /\ tx.connectionStatus = "registered"

C28_ReadyIsRegistered == TwilioReadyIsRegistered /\ TelnyxReadyIsRegistered

\* ---------------------------------------------------------------------- C29
\* Once hangUp has run, a makeCall that was suspended at that moment (awaiting
\* initializeClient or createUserCallLog) creates no outbound connection and
\* records no log id when it resumes; and while callState is idle no outbound
\* connection is being dialled.
OvertakenDials ==
    \A p \in ProcIds :
       (/\ tw.procs[p].pc = "log"
        /\ tw.procs[p].call \in tw.hungUp
        /\ tw'.procs[p].pc = "free")
       => /\ tw'.conns[tw.procs[p].call].status = "none"
          /\ tw'.activeLogIdRef # tw.procs[p].call

IdleDialsNothing ==
    tw.callState = "idle" =>
       \A c \in CallIds : ~ (tw.conns[c].dir = "out" /\ tw.conns[c].status = "pending")

C29_HangUpStopsDial == [][OvertakenDials]_vars /\ []IdleDialsNothing

\* ---------------------------------------------------------------------- C30
\* While a device exists and its last token carried a positive expiry (every
\* token of these runs does), a refresh is pending: the refresh timer is armed
\* or a refresh is under way.  In particular the failure of a timer-driven
\* refresh arms a new timer.
Refreshing(s) == { p \in ProcIds : s.procs[p].pc = "refreshFetch" }

RefreshPending ==
    tw.deviceRef # 0 => PendingTimers(tw) # {} \/ Refreshing(tw) # {}

TimerRefreshFails(p) ==
    /\ tw.procs[p].op = "refresh"
    /\ tw.deviceRef # 0
    /\ \/ RefreshFailed(p)
       \/ \E expiresIn \in PositiveExpiry : RefreshFetched(p, expiresIn, FALSE)

RearmedAfterFailure ==
    \A p \in ProcIds : TimerRefreshFails(p) => PendingTimers(tw') # {}

C30_RefreshAlwaysPending == []RefreshPending /\ [][RearmedAfterFailure]_vars
====
